---- MODULE Spec2Model ----
(***************************************************************************)
(* Model of the audition engine of spectrogram-annotation:                 *)
(*   - SynthEngine (src/spec_annotate/synth.py): the voice pool, the       *)
(*     control interface and the sounddevice render callback;              *)
(*   - the audition scheduler of MainWindow                                *)
(*     (src/spec_annotate/main_window.py).                                 *)
(*                                                                         *)
(* Two threads run the code: the Qt (control) thread and the PortAudio     *)
(* callback (render) thread.  They share SynthEngine._voices without any   *)
(* lock, so the render callback is modelled at the granularity of its      *)
(* accesses to the shared dict: the iterator step with the reads of the    *)
(* voice's fields (lines 148-159), the computation with the write-back     *)
(* (lines 161-243), each pop of the cleanup (lines 248-249) and the        *)
(* mixdown (lines 251-259).                                                *)
(*                                                                         *)
(* Numbers.  Floats are modelled by integers in fixed units:               *)
(*   envelope level : 1.0 = EnvScale, with                                 *)
(*                    EnvScale = attack_samples * release_samples, so that *)
(*                    both per-sample increments are whole units;          *)
(*   phase          : 2*pi = TwoPi units, and frequency in units of        *)
(*                    sample_rate/TwoPi Hz, so that the phase step per     *)
(*                    sample w = 2*pi*f/sample_rate is f units;            *)
(*   sine, gains    : tenths.                                              *)
(***************************************************************************)
EXTENDS Integers, Sequences, FiniteSets, TLC

----------------------------------------------------------------------------
\* Bounds of the model (the program's defaults scaled down).

\* max_voices (32 in the program)
MaxVoices == 2
\* cap on _next_voice_id: note_on is not invoked once this many ids were used
MaxVoiceId == 3
\* sample_rate (44100 in the program)
SampleRate == 200
\* largest block size the device asks for (512 in the program)
MaxFrames == 4
\* 2 * np.pi in phase units (the resolution of the phase)
TwoPi == 4
\* number of calls of stop() in a run
MaxStops == 2
\* length of the note list of the timeline
MaxNotes == 2
\* latest playback time, in units of half a second
MaxTime == 2

\* Program constants.
\* attack_sec = 0.01 and release_sec = 0.03, in hundredths of a second
AttackCs == 1
ReleaseCs == 3
\* full scale of the 16-bit PCM output
PcmMax == 32767
\* MIDI velocity ceiling
VelMax == 127
\* master_gain = 0.2, in tenths
MasterGainInit == 2

----------------------------------------------------------------------------
\* Helpers

Max2(a, b) == IF a >= b THEN a ELSE b
Min2(a, b) == IF a <= b THEN a ELSE b

\* int(x) of Python / astype(int16) of NumPy: truncation toward zero
TruncDiv(a, b) == IF a >= 0 THEN a \div b ELSE -((-a) \div b)

Range(s) == {s[i] : i \in DOMAIN s}

RECURSIVE SeqRemove(_, _)
SeqRemove(s, x) ==
    IF s = <<>> THEN <<>>
    ELSE IF Head(s) = x THEN SeqRemove(Tail(s), x)
    ELSE <<Head(s)>> \o SeqRemove(Tail(s), x)

Zeros(n) == [j \in 1..n |-> 0]

----------------------------------------------------------------------------
\* Envelope parameters, as note_on derives them (synth.py 75-78)

attack_samples == Max2(1, (AttackCs * SampleRate) \div 100)
release_samples == Max2(1, (ReleaseCs * SampleRate) \div 100)
EnvScale == attack_samples * release_samples
\* attack_inc = 1/attack_samples and release_inc = 1/release_samples
attack_inc == EnvScale \div attack_samples
release_inc == EnvScale \div release_samples

\* np.sin in tenths, phase in units of 2*pi/TwoPi, by Bhaskara's rational
\* approximation sin(x) ~ 16x(pi-x) / (5pi^2 - 4x(pi-x)) on [0, pi] and
\* sin(x) = -sin(x - pi) on [pi, 2pi).  y is x in units of pi/TwoPi.
SinHalf(y) == (10 * 16 * y * (TwoPi - y)) \div (5 * TwoPi * TwoPi - 4 * y * (TwoPi - y))
Sin(p) ==
    LET x == p % TwoPi
    IN IF 2 * x <= TwoPi THEN SinHalf(2 * x) ELSE -SinHalf(2 * x - TwoPi)

\* a faulty limit, which lets any velocity through
ClampVelNone(velocity) == velocity

\* velocity -> gain (synth.py 71-72): v = clamp(int(velocity), 0, 127) / 127,
\* gain = v ** 0.8, in tenths (rounded) for the velocities the model uses
ClampVel(velocity) == Max2(0, Min2(VelMax, velocity))
Pow08(c) ==
    CASE c = 0 -> 0
      [] c = 1 -> 0
      [] c = 25 -> 3
      [] c = 64 -> 6
      [] c = 80 -> 7
      [] c = 100 -> 8
      [] c = 127 -> 10
      [] OTHER -> (10 * c + 63) \div 127
GainOf(velocity) == Pow08(ClampVel(velocity))

\* 1.0 of the float mix buffer, in units of sine * master_gain * gain * env
OutUnit == 10 * 10 * 10 * EnvScale

----------------------------------------------------------------------------
\* State

VARIABLES
    voices,         \* SynthEngine._voices: voice id -> voice, the pool
    order,          \* insertion order of the keys of _voices (dict order)
    next_voice_id,  \* SynthEngine._next_voice_id
    master_gain,    \* SynthEngine.master_gain, in tenths
    stream,         \* the sounddevice output stream: "active" or "closed"
    render,         \* the render thread: position in _render_chunk and locals
    outdata,        \* the buffer of the callback: empty while the callback
                    \* runs, the block handed to the device once it returned
    ctl,            \* the control thread: position and result of its last call
    sched,          \* MainWindow: the audition scheduler's state
    hist            \* history of the calls (observation only)

vars == <<voices, order, next_voice_id, master_gain, stream, render, outdata,
          ctl, sched, hist>>
engineVars == <<voices, order, next_voice_id, master_gain, stream>>

VoiceIds == 1..MaxVoiceId
Frames == {1, MaxFrames}
EnvStates == {"attack", "sustain", "release", "done"}

\* the voice dict note_on builds (synth.py 80-88); attack_inc and release_inc
\* are the same for every voice and are the definitions above
NewVoice(freq_hz, velocity) ==
    [freq |-> freq_hz, phase |-> 0, gain |-> GainOf(velocity),
     state |-> "attack", env |-> 0]

NoLoc == [freq |-> 0, phase |-> 0, gain |-> 0, state |-> "none", env |-> 0]

\* the render thread outside the callback
RenderIdle ==
    [pc |-> "idle", n |-> 0, used |-> 0, pos |-> 0, stale |-> FALSE,
     vid |-> 0, loc |-> NoLoc, dead |-> <<>>, out |-> <<>>]

\* the control thread outside any call
\* ret is what the last call returned when it was a note_on: a voice id, 0 for
\* None, and -1 after any other call
CtlIdle == [pc |-> "idle", ret |-> -1, raised |-> FALSE, used |-> 0, pos |-> 0,
            offQ |-> <<>>, onQ |-> <<>>, t |-> 0]

\* MainWindow's audition state (main_window.py 113-124): the note list of the
\* widget, _active_note_voices (note index -> voice ids; indices count from 1
\* here) with its keys in the dict's order of insertion, _audition_enabled,
\* _preview_volume (in hundredths), the voices whose one-shot release timer
\* is pending, and _drag_preview_voice_id (0 for None)
SchedState(note_list) ==
    [notes |-> note_list, active |-> <<>>, keys |-> <<>>,
     audition_enabled |-> TRUE, preview_volume |-> 20, timers |-> {},
     drag_preview_voice_id |-> 0]

SchedInit == SchedState(<<>>)

\* no reconciliation to speak of
NoRecon == [t |-> -1, done |-> FALSE, repeat |-> FALSE, on |-> 0, off |-> 0,
            onSet |-> {}, failed |-> {}, prevFailed |-> {},
            before |-> <<>>, offSet |-> {}]

\* released: the pooled voices a returned note_off or all_notes_off took out
\*   of Attack or Sustain; offAtStart: those of them at the start of the
\*   running render call; recon: the calls issued by the running, or last,
\*   reconciliation of the scheduler, with the tracking map it was entered
\*   with (before) and the voice ids it issued note_off for (offSet);
\*   live: the pairs <<index, voice id>> of the voices the scheduler started
\*   for an index and has not issued note_off for
\*   envAtStart: the level of each voice of offAtStart when the call started;
\*   stops: the number of calls of stop() that have returned;
\*   ids: the voice ids note_on has returned;
\*   retuned: the frequency given by the last recorded set_voice_freq to each
\*   pooled voice retuned since the last render call began; retuneAtStart: for
\*   the voices retuned before the running render call began and not since,
\*   that frequency with the phase and level stored when the call began;
\*   drag: the voices the drag preview created and has not issued note_off
\*   for; calls: the engine calls of the running, or last, drag handler;
\*   ended: the pooled voices _on_pitch_preview_ended issued note_off for;
\*   quiet: pause() or stop() of the playback was called and since then play
\*   was not called, the marker was not moved and audition was not enabled;
\*   doneAtStart: the voices that were in the pool in state Done when the
\*   running render call began
HistInit ==
    [released |-> {}, offAtStart |-> {}, envAtStart |-> <<>>, recon |-> NoRecon,
     live |-> {}, stops |-> 0, ids |-> {}, retuned |-> <<>>,
     retuneAtStart |-> <<>>, drag |-> {}, calls |-> <<>>, ended |-> {},
     quiet |-> FALSE, doneAtStart |-> {}]

\* the history keeps what concerns the voices still in the pool, and the
\* snapshot of a render call for as long as the call runs
HistPrune(h, pool, rendering) ==
    [h EXCEPT !.released = @ \cap pool,
              !.offAtStart = IF rendering THEN @ \cap pool ELSE {},
              !.envAtStart = IF rendering
                             THEN [v \in DOMAIN @ \cap pool |-> @[v]]
                             ELSE <<>>,
              !.ended = @ \cap pool,
              !.doneAtStart = IF rendering THEN @ ELSE {},
              !.retuned = [v \in DOMAIN @ \cap pool |-> @[v]],
              !.retuneAtStart = IF rendering
                                THEN [v \in DOMAIN @ \cap pool |-> @[v]]
                                ELSE <<>>]

\* a block of the callback: the samples handed to the device, whether the
\* except handler produced them, and the float mix they were converted from
NoBlock == [pcm |-> <<>>, fault |-> FALSE, mix |-> <<>>]

EngineInit ==
    /\ voices = <<>>
    /\ order = <<>>
    /\ next_voice_id = 1
    /\ master_gain = MasterGainInit
    /\ stream = "active"
    /\ render = RenderIdle
    /\ outdata = NoBlock
    /\ ctl = CtlIdle
    /\ hist = HistInit

----------------------------------------------------------------------------
\* Control interface (synth.py 65-123).  Each of note_on, note_off and
\* set_voice_freq reads and writes the pool at one point in a way that no
\* step of the render thread in between can change (the len() test of
\* note_on can only be made weaker by a concurrent pop), so each is one step.

PoolSize == Len(order)

\* a faulty capacity test, which lets one voice too many in
PoolFullOffByOne == PoolSize > MaxVoices

\* a faulty capacity test, which does not count the released voices
PoolFullSounding ==
    Cardinality({v \in DOMAIN voices :
                    voices[v].state \in {"attack", "sustain"}}) >= MaxVoices

\* synth.py 66
PoolFull == PoolSize >= MaxVoices

\* the value note_on returns: the new id, or 0 for None
NoteOnRet == IF PoolFull THEN 0 ELSE next_voice_id

\* a faulty note_on, which does not advance the id counter
DoNoteOnSameId(freq_hz, velocity) ==
    IF PoolFull
    THEN UNCHANGED <<voices, order, next_voice_id>>
    ELSE /\ voices' = [v \in DOMAIN voices \cup {next_voice_id} |->
                          IF v = next_voice_id THEN NewVoice(freq_hz, velocity)
                          ELSE voices[v]]
         /\ order' = Append(order, next_voice_id)
         /\ next_voice_id' = next_voice_id

\* the effect of note_on on the engine (synth.py 65-90)
DoNoteOn(freq_hz, velocity) ==
    IF PoolFull
    THEN UNCHANGED <<voices, order, next_voice_id>>
    ELSE /\ voices' = [v \in DOMAIN voices \cup {next_voice_id} |->
                          IF v = next_voice_id THEN NewVoice(freq_hz, velocity)
                          ELSE voices[v]]
         /\ order' = Append(order, next_voice_id)
         /\ next_voice_id' = next_voice_id + 1

\* the state note_off leaves the voice in (synth.py 94-95)
NoteOffState(state) == IF state # "release" THEN "release" ELSE state

\* the effect of note_off on the engine (synth.py 92-95)
DoNoteOff(voice_id) ==
    /\ voices' = IF voice_id \in DOMAIN voices
                 THEN [voices EXCEPT ![voice_id].state = NoteOffState(@)]
                 ELSE voices
    /\ UNCHANGED <<order, next_voice_id>>

\* the voices a call of note_off(voice_id) takes out of Attack or Sustain
Releases(voice_id) ==
    IF voice_id \in DOMAIN voices /\ voices[voice_id].state \in {"attack", "sustain"}
    THEN {voice_id} ELSE {}

\* a faulty set_voice_freq, which retunes every voice of the pool
DoSetVoiceFreqAll(voice_id, freq_hz) ==
    /\ voices' = IF voice_id \in DOMAIN voices
                 THEN [v \in DOMAIN voices |-> [voices[v] EXCEPT !.freq = freq_hz]]
                 ELSE voices
    /\ UNCHANGED <<order, next_voice_id>>

\* the effect of set_voice_freq on the engine (synth.py 97-106)
DoSetVoiceFreq(voice_id, freq_hz) ==
    /\ voices' = IF voice_id \in DOMAIN voices
                 THEN [voices EXCEPT ![voice_id].freq = freq_hz]
                 ELSE voices
    /\ UNCHANGED <<order, next_voice_id>>

\* the ids returned so far, after a call of note_on
Returned(ids) == IF NoteOnRet # 0 THEN ids \cup {NoteOnRet} ELSE ids

\* a call is possible only while the id counter is below the model's cap
IdAvailable == PoolFull \/ next_voice_id <= MaxVoiceId

\* note_on called directly (a note preview, a drag preview, any client)
NoteOn(freq_hz, velocity) ==
    /\ ctl.pc = "idle"
    /\ IdAvailable
    /\ DoNoteOn(freq_hz, velocity)
    /\ ctl' = [CtlIdle EXCEPT !.ret = NoteOnRet]
    /\ hist' = [hist EXCEPT !.ids = Returned(@)]
    /\ UNCHANGED <<master_gain, stream, render, outdata, sched>>

NoteOff(voice_id) ==
    /\ ctl.pc = "idle"
    /\ DoNoteOff(voice_id)
    /\ ctl' = CtlIdle
    /\ hist' = [hist EXCEPT !.released = @ \cup Releases(voice_id)]
    /\ UNCHANGED <<master_gain, stream, render, outdata, sched>>

SetVoiceFreq(voice_id, freq_hz) ==
    /\ ctl.pc = "idle"
    /\ DoSetVoiceFreq(voice_id, freq_hz)
    /\ ctl' = CtlIdle
    /\ UNCHANGED <<master_gain, stream, render, outdata, sched, hist>>

\* set_voice_freq called by a client whose retunes are recorded
SetVoiceFreqRecorded(voice_id, freq_hz) ==
    /\ ctl.pc = "idle"
    /\ DoSetVoiceFreq(voice_id, freq_hz)
    /\ ctl' = CtlIdle
    /\ hist' = IF voice_id \in DOMAIN voices
               THEN [hist EXCEPT
                       !.retuned = [v \in DOMAIN @ \cup {voice_id} |->
                                       IF v = voice_id THEN freq_hz ELSE @[v]],
                       !.retuneAtStart =
                           [v \in DOMAIN @ \ {voice_id} |-> @[v]]]
               ELSE hist
    /\ UNCHANGED <<master_gain, stream, render, outdata, sched>>

\* _on_audition_volume_changed (main_window.py 938-945): the slider's value,
\* in hundredths, clamped to [0, 1], becomes the engine's master gain (and
\* MainWindow's _audition_volume, which has no other use here)
AuditionVolumeChanged(value) ==
    /\ ctl.pc = "idle"
    /\ master_gain' = Max2(0, Min2(100, value)) \div 10
    /\ ctl' = CtlIdle
    /\ UNCHANGED <<voices, order, next_voice_id, stream, render, outdata,
                   sched, hist>>

\* all_notes_off (synth.py 108-110) iterates _voices.values(): the iterator
\* is created (AllNotesOffStart), then each next() either raises RuntimeError
\* because the render thread popped a voice meanwhile, or yields the next
\* voice, whose state is set, or ends the loop.
AllNotesOffStart ==
    /\ ctl.pc = "idle"
    /\ ctl' = [CtlIdle EXCEPT !.pc = "all_notes_off", !.used = PoolSize]
    /\ UNCHANGED <<engineVars, render, outdata, sched, hist>>

AllNotesOffStep ==
    /\ ctl.pc = "all_notes_off"
    /\ IF PoolSize # ctl.used
       THEN /\ ctl' = [CtlIdle EXCEPT !.raised = TRUE]
            /\ UNCHANGED <<voices, hist>>
       ELSE IF ctl.pos >= PoolSize
       THEN /\ ctl' = CtlIdle
            /\ UNCHANGED <<voices, hist>>
       ELSE LET vid == order[ctl.pos + 1]
            IN /\ voices' = [voices EXCEPT ![vid].state = "release"]
               /\ ctl' = [ctl EXCEPT !.pos = @ + 1]
               /\ hist' = [hist EXCEPT !.released = @ \cup Releases(vid)]
    /\ UNCHANGED <<order, next_voice_id, master_gain, stream, render, outdata,
                   sched>>

\* a faulty stop, which clears the pool only when the device stopped
DoStopNoFinally(device_ok) ==
    /\ IF device_ok /\ stream = "active"
       THEN render.pc = "idle" /\ stream' = "closed"
       ELSE stream' = stream
    /\ voices' = IF device_ok THEN <<>> ELSE voices
    /\ order' = IF device_ok THEN <<>> ELSE order
    /\ UNCHANGED <<render, next_voice_id, master_gain, outdata, sched>>

\* stop (synth.py 112-123).  The device either stops and closes, which waits
\* for a callback in progress to return, or raises, which stop() catches and
\* which leaves the stream as it was; the pool is cleared in both cases.
\* A render call that is iterating the pool when it is cleared keeps its
\* iterator: render.stale records that the dict was rebuilt under it.
DoStop(device_ok) ==
    /\ IF device_ok /\ stream = "active"
       THEN render.pc = "idle" /\ stream' = "closed"
       ELSE stream' = stream
    /\ voices' = <<>>
    /\ order' = <<>>
    /\ render' = IF render.pc \in {"loop", "voice"} /\ order # <<>>
                 THEN [render EXCEPT !.stale = TRUE] ELSE render
    /\ UNCHANGED <<next_voice_id, master_gain, outdata, sched>>

Stop(device_ok) ==
    /\ ctl.pc = "idle"
    /\ DoStop(device_ok)
    /\ ctl' = CtlIdle
    /\ hist' = HistPrune(hist, {}, render.pc # "idle")

\* a faulty stop, which lets the failure of the device reach its caller
StopCountedPropagates(device_ok) ==
    /\ ctl.pc = "idle"
    /\ hist.stops < MaxStops
    /\ DoStop(device_ok)
    /\ ctl' = [CtlIdle EXCEPT !.raised = ~device_ok]
    /\ hist' = [HistPrune(hist, {}, render.pc # "idle") EXCEPT !.stops = @ + 1]

\* stop called by a client that counts its calls
StopCounted(device_ok) ==
    /\ ctl.pc = "idle"
    /\ hist.stops < MaxStops
    /\ DoStop(device_ok)
    /\ ctl' = CtlIdle
    /\ hist' = [HistPrune(hist, {}, render.pc # "idle") EXCEPT !.stops = @ + 1]


----------------------------------------------------------------------------
\* Rendering (synth.py 126-266)

\* per-sample envelope increment of a state (synth.py 167-172)
EnvInc(state) ==
    IF state = "attack" THEN attack_inc
    ELSE IF state = "release" THEN -release_inc
    ELSE 0

\* env_end (synth.py 188)
EnvEnd(state, env, n) == env + EnvInc(state) * n

\* does the envelope reach its target within the block (synth.py 191, 216)
Crosses(state, env, n) ==
    \/ EnvInc(state) > 0 /\ EnvEnd(state, env, n) >= EnvScale
    \/ EnvInc(state) < 0 /\ EnvEnd(state, env, n) <= 0

\* transition_idx (synth.py 194, 218)
TransitionIdx(state, env) ==
    IF EnvInc(state) > 0 THEN (EnvScale - env) \div EnvInc(state)
    ELSE env \div (-EnvInc(state))

\* a faulty envelope, which keeps ramping past the transition index
ChunkEnvRampOnly(state, env, n, j) == env + EnvInc(state) * j

\* the envelope applied to sample j (0-based) of the block (synth.py 190-238):
\* the ramp up to the transition index and the target level after it
ChunkEnv(state, env, n, j) ==
    IF Crosses(state, env, n)
    THEN IF j < TransitionIdx(state, env)
         THEN env + EnvInc(state) * j
         ELSE IF EnvInc(state) > 0 THEN EnvScale ELSE 0
    ELSE env + EnvInc(state) * j

\* a faulty write-back of the level, which stores env_end at a transition too
EnvAfterUnclamped(state, env, n) == EnvEnd(state, env, n)

\* the level stored for the next block (synth.py 206, 213, 227, 235)
EnvAfter(state, env, n) ==
    IF Crosses(state, env, n)
    THEN IF EnvInc(state) > 0 THEN EnvScale ELSE 0
    ELSE EnvEnd(state, env, n)

\* the state stored at a transition (synth.py 207, 228)
StateAfter(state) == IF state = "attack" THEN "sustain" ELSE "done"

\* a faulty phase update, which lets the stored phase grow
PhaseAfterUnwrapped(phase, w, n) == phase + w * (n - 1)

\* the phase stored for the next block (synth.py 177, 243)
PhaseAfter(phase, w, n) == (phase + w * (n - 1)) % TwoPi

\* a faulty oscillator, which starts every block at phase 0
ContributionFromZero(loc, gain_master, n, j) ==
    Sin(loc.freq * j) * gain_master * loc.gain
        * ChunkEnv(loc.state, loc.env, n, j)

\* one voice's contribution to sample j (0-based) (synth.py 177-238)
Contribution(loc, gain_master, n, j) ==
    Sin(loc.phase + loc.freq * j) * gain_master * loc.gain
        * ChunkEnv(loc.state, loc.env, n, j)

\* a faulty mixdown, which does not clip
ClipNone(x) == x

\* np.clip(out, -1.0, 1.0) and the conversion to int16 (synth.py 252-256)
Clip(x) == Max2(-OutUnit, Min2(OutUnit, x))
ToPcm(x) == TruncDiv(Clip(x) * PcmMax, OutUnit)

\* the callback is entered: out, dead_voices and the iterator over
\* _voices.items() are created (synth.py 139-148)
RenderStart(frames) ==
    /\ stream = "active"
    /\ render.pc = "idle"
    /\ render' = [RenderIdle EXCEPT !.pc = "loop", !.n = frames,
                                    !.used = PoolSize, !.out = Zeros(frames)]
    /\ outdata' = NoBlock
    /\ hist' = [hist EXCEPT
                  !.offAtStart = hist.released \cap DOMAIN voices,
                  !.envAtStart = [v \in hist.released \cap DOMAIN voices |->
                                     voices[v].env],
                  !.retuned = <<>>,
                  !.doneAtStart = {v \in DOMAIN voices :
                                      voices[v].state = "done"},
                  !.retuneAtStart =
                      [v \in DOMAIN hist.retuned \cap DOMAIN voices |->
                          [freq |-> hist.retuned[v], phase |-> voices[v].phase,
                           env |-> voices[v].env]]]
    /\ UNCHANGED <<engineVars, ctl, sched>>

\* a faulty except handler, which returns without filling the block
RenderFaultNoFill ==
    /\ render' = RenderIdle
    /\ outdata' = [pcm |-> <<>>, fault |-> TRUE, mix |-> <<>>]
    /\ hist' = HistPrune(hist, DOMAIN voices, FALSE)

\* the except handler (synth.py 261-266): the block is filled with silence
RenderFault ==
    /\ render' = RenderIdle
    /\ outdata' = [pcm |-> Zeros(render.n), fault |-> TRUE, mix |-> <<>>]
    /\ hist' = HistPrune(hist, DOMAIN voices, FALSE)

\* the entries the iterator may yield next.  An untouched dict yields its
\* entries in order.  After the dict was cleared and refilled to its old size
\* under the iterator, the iterator resumes at its old slot of the new table:
\* which entry that is depends on the table's layout, so any later position.
NextPositions ==
    IF render.stale THEN render.pos..PoolSize ELSE {render.pos}

\* one next() of the dict iterator with the reads of the voice's fields
\* (synth.py 148-159).  A dict whose size changed raises RuntimeError.
RenderNext ==
    /\ render.pc = "loop"
    /\ IF PoolSize # render.used
       THEN RenderFault
       ELSE \E p \in NextPositions :
              IF p >= PoolSize
              THEN /\ render' = [render EXCEPT !.pc = "cleanup", !.vid = 0,
                                               !.loc = NoLoc, !.pos = 0,
                                               !.used = 0, !.stale = FALSE]
                   /\ UNCHANGED <<outdata, hist>>
              ELSE /\ render' = [render EXCEPT !.pc = "voice", !.pos = p + 1,
                                               !.vid = order[p + 1],
                                               !.loc = voices[order[p + 1]]]
                   /\ UNCHANGED <<outdata, hist>>
    /\ UNCHANGED <<engineVars, ctl, sched>>

\* the voice as the loop body writes it back (synth.py 206-243): the level,
\* the state when the envelope reached its target, and the phase.  The state
\* is otherwise left as it is in the pool.
WriteBack(v, loc, n) ==
    [v EXCEPT !.env = EnvAfter(loc.state, loc.env, n),
              !.state = IF Crosses(loc.state, loc.env, n)
                        THEN StateAfter(loc.state) ELSE @,
              !.phase = PhaseAfter(loc.phase, loc.freq, n)]

\* a faulty loop body, which lists only the voices it found Done
DeadAfterSkippedOnly(dead, vid, loc, n) ==
    IF loc.state = "done" THEN Append(dead, vid) ELSE dead

\* a faulty loop body, which lists only the voices that finish their release
\* in this block
DeadAfterCrossingOnly(dead, vid, loc, n) ==
    IF loc.state = "release" /\ Crosses(loc.state, loc.env, n)
    THEN Append(dead, vid) ELSE dead

\* dead_voices after the loop body (synth.py 163, 229)
DeadAfter(dead, vid, loc, n) ==
    IF loc.state = "done" \/ (loc.state = "release" /\ Crosses(loc.state, loc.env, n))
    THEN Append(dead, vid) ELSE dead

\* the loop body for the voice read by RenderNext (synth.py 161-243).  The
\* writes go to the voice object the iterator yielded: an object that stop()
\* dropped from the pool meanwhile is no longer reachable from the pool.
RenderVoice ==
    /\ render.pc = "voice"
    /\ LET vid == render.vid
           loc == render.loc
           n == render.n
       IN IF loc.state = "done"
          THEN /\ render' = [render EXCEPT !.pc = "loop",
                                           !.dead = DeadAfter(@, vid, loc, n)]
               /\ UNCHANGED voices
          ELSE /\ render' = [render EXCEPT
                               !.pc = "loop",
                               !.dead = DeadAfter(@, vid, loc, n),
                               !.out = [j \in 1..n |->
                                   @[j] + Contribution(loc, master_gain, n, j - 1)]]
               /\ voices' = IF vid \in DOMAIN voices
                            THEN [voices EXCEPT ![vid] = WriteBack(@, loc, n)]
                            ELSE voices
    /\ UNCHANGED <<order, next_voice_id, master_gain, stream, outdata, ctl,
                   sched, hist>>

\* the pool without a voice (synth.py 249: pop(vid, None))
PoolWithout(vs, vid) == [v \in DOMAIN vs \ {vid} |-> vs[v]]

\* the block handed to the device (synth.py 251-259): the mix is clipped and
\* converted to 16-bit PCM
Mixdown(out) ==
    [pcm |-> [j \in DOMAIN out |-> ToPcm(out[j])], fault |-> FALSE, mix |-> out]

\* the cleanup loop (synth.py 248-249), one pop of a finished voice per step,
\* and after the last pop the mixdown and the return of the callback
\* (synth.py 251-259), which touch nothing the control thread can see
RenderCleanup ==
    /\ render.pc = "cleanup"
    /\ IF render.dead = <<>>
       THEN /\ outdata' = Mixdown(render.out)
            /\ render' = RenderIdle
            /\ hist' = HistPrune(hist, DOMAIN voices, FALSE)
            /\ UNCHANGED <<voices, order>>
       ELSE /\ voices' = PoolWithout(voices, Head(render.dead))
            /\ order' = SeqRemove(order, Head(render.dead))
            /\ render' = [render EXCEPT !.dead = Tail(@)]
            /\ hist' = HistPrune(hist, DOMAIN voices', TRUE)
            /\ UNCHANGED outdata
    /\ UNCHANGED <<next_voice_id, master_gain, stream, ctl, sched>>

Render ==
    \/ \E frames \in Frames : RenderStart(frames)
    \/ RenderNext
    \/ RenderVoice
    \/ RenderCleanup

----------------------------------------------------------------------------
\* The engine with any client: every call of the control interface, with any
\* argument, interleaved with the render callback.

Freqs == {1}
Velocities == {VelMax}

Init ==
    /\ EngineInit
    /\ sched = SchedInit

Control ==
    \/ \E f \in Freqs, vel \in Velocities : NoteOn(f, vel)
    \/ \E vid \in VoiceIds : NoteOff(vid)
    \/ \E vid \in VoiceIds, f \in Freqs : SetVoiceFreq(vid, f)
    \/ AllNotesOffStart
    \/ AllNotesOffStep
    \/ \E device_ok \in BOOLEAN : Stop(device_ok)

Next == Control \/ Render

Spec == Init /\ [][Next]_vars

----------------------------------------------------------------------------
\* The audition scheduler (main_window.py 771-871 and 1006-1071)

\* a note of the timeline, as export_notes_seconds returns it
\* (spectrogram_widget.py 116-126); times in half seconds
Note(pitch, start, end, velocity) ==
    [pitch |-> pitch, start |-> start, end |-> end, vel |-> velocity]

\* librosa.midi_to_hz, in the model's unit of frequency, for the pitches an
\* octave apart that the model uses: an octave doubles the frequency
MidiToHz(pitch) == 2 ^ ((pitch - 60) \div 12)

\* a faulty activity test, which keeps a note active at its end time
WantActiveInclusive(notes, t) ==
    {i \in DOMAIN notes : notes[i].start <= t /\ t <= notes[i].end}

\* want_active_idxs (main_window.py 1042-1045)
WantActive(notes, t) ==
    {i \in DOMAIN notes : notes[i].start <= t /\ t < notes[i].end}

\* an ascending enumeration of a set of indices (sorted(), main_window.py 1059)
RECURSIVE Sorted(_)
Sorted(S) ==
    IF S = {} THEN <<>>
    ELSE LET m == CHOOSE x \in S : \A y \in S : x <= y
         IN <<m>> \o Sorted(S \ {m})

\* the voice ids tracked under the indices of a sequence, in that order
RECURSIVE VoicesOf(_, _)
VoicesOf(active, idxs) ==
    IF idxs = <<>> THEN <<>>
    ELSE active[Head(idxs)] \o VoicesOf(active, Tail(idxs))

\* a faulty reconciliation, which drops no index
StaleNone(active, notes, t) == {}

\* the tracked indices reconciliation drops at time t (main_window.py 1048-1050)
Stale(active, notes, t) == DOMAIN active \ WantActive(notes, t)

\* a faulty reconciliation, which calls note_on for every wanted index
ToStartAll(active, notes, t) == WantActive(notes, t)

\* the indices reconciliation calls note_on for (main_window.py 1059-1061)
ToStart(active, notes, t) == WantActive(notes, t) \ DOMAIN active

Restrict(f, S) == [x \in S |-> f[x]]

\* the control thread after one call of a handler: back to idle after the last
CtlAfter(pc, offQ, onQ) ==
    IF offQ = <<>> /\ onQ = <<>> THEN CtlIdle
    ELSE [CtlIdle EXCEPT !.pc = pc, !.offQ = offQ, !.onQ = onQ]

\* _audition_update_for_time(t) is entered with audition enabled
\* (main_window.py 1030-1050): the tracked indices that are not wanted are
\* dropped, their voice ids are to be issued note_off, and the wanted indices
\* that are not tracked are to be issued note_on, in ascending order.  The
\* tracking map is private to the control thread, so its updates are one step;
\* every call of the engine is a step of its own (ReconOff, ReconOn).
Reconcile(t, sc, h) ==
    LET stale == Stale(sc.active, sc.notes, t)
        offQ == VoicesOf(sc.active, SelectSeq(sc.keys, LAMBDA i : i \in stale))
        onQ == Sorted(ToStart(sc.active, sc.notes, t))
        again == hist.recon.done /\ hist.recon.t = t
    IN /\ sched' = [sc EXCEPT !.active = Restrict(@, DOMAIN @ \ stale),
                               !.keys = SelectSeq(@, LAMBDA i : i \notin stale)]
       /\ ctl' = CtlAfter("recon", offQ, onQ)
       /\ hist' = [h EXCEPT !.recon =
                     [NoRecon EXCEPT !.t = t, !.repeat = again,
                                     !.before = sc.active,
                                     !.prevFailed = IF again THEN hist.recon.failed
                                                    ELSE {},
                                     !.done = (offQ = <<>> /\ onQ = <<>>)]]

ReconStart(t) ==
    /\ ctl.pc = "idle"
    /\ sched.audition_enabled
    /\ Reconcile(t, sched, hist)
    /\ UNCHANGED <<engineVars, render, outdata>>

\* one note_off of a handler (main_window.py 1051-1054 and 1019-1022)
ReconOff ==
    /\ ctl.pc \in {"recon", "stop_all"}
    /\ ctl.offQ # <<>>
    /\ DoNoteOff(Head(ctl.offQ))
    /\ ctl' = CtlAfter(ctl.pc, Tail(ctl.offQ), ctl.onQ)
    /\ hist' = [hist EXCEPT
                  !.released = @ \cup Releases(Head(ctl.offQ)),
                  !.live = {p \in @ : p[2] # Head(ctl.offQ)},
                  !.recon = IF ctl.pc = "recon"
                            THEN [@ EXCEPT !.off = @ + 1,
                                           !.offSet = @ \cup {Head(ctl.offQ)},
                                           !.done = (Tail(ctl.offQ) = <<>>
                                                     /\ ctl.onQ = <<>>)]
                            ELSE @]
    /\ UNCHANGED <<master_gain, stream, render, outdata, sched>>

\* one note_on of reconciliation, and the record of the voice it returned
\* (main_window.py 1062-1069)
ReconOn ==
    /\ ctl.pc = "recon"
    /\ ctl.offQ = <<>>
    /\ ctl.onQ # <<>>
    /\ IdAvailable
    /\ LET i == Head(ctl.onQ)
           vid == NoteOnRet
       IN /\ DoNoteOn(MidiToHz(sched.notes[i].pitch), sched.notes[i].vel)
          /\ sched' = IF vid # 0
                      THEN [sched EXCEPT !.active =
                              [x \in DOMAIN @ \cup {i} |->
                                  IF x = i THEN <<vid>> ELSE @[x]],
                                         !.keys = Append(@, i)]
                      ELSE sched
          /\ ctl' = CtlAfter("recon", <<>>, Tail(ctl.onQ))
          /\ hist' = [hist EXCEPT
                        !.live = IF vid # 0 THEN @ \cup {<<i, vid>>} ELSE @,
                        !.ids = Returned(@),
                        !.recon =
                        [@ EXCEPT !.on = @ + 1,
                                  !.onSet = @ \cup {i},
                                  !.failed = IF vid = 0 THEN @ \cup {i} ELSE @,
                                  !.done = (Tail(ctl.onQ) = <<>>)]]
    /\ UNCHANGED <<master_gain, stream, render, outdata>>

\* _on_player_position_changed (main_window.py 832-839), _on_marker_moved
\* (842-851) and play (771-782) reconcile at the time they are given, or read
\* from the player, when audition is enabled
PositionChanged(t) == ReconStart(t)

\* faulty handlers, which reconcile whether audition is enabled or not
ResumeUnguarded(t) ==
    /\ ctl.pc = "idle"
    /\ Reconcile(t, sched, [hist EXCEPT !.quiet = FALSE])
    /\ UNCHANGED <<engineVars, render, outdata>>

\* the handlers that take the playback out of a pause: they reconcile when
\* audition is enabled, and only then
Resume(t) ==
    /\ ctl.pc = "idle"
    /\ IF sched.audition_enabled
       THEN Reconcile(t, sched, [hist EXCEPT !.quiet = FALSE])
       ELSE /\ hist' = [hist EXCEPT !.quiet = FALSE]
            /\ ctl' = CtlIdle
            /\ sched' = sched
    /\ UNCHANGED <<engineVars, render, outdata>>

MarkerMoved(t) == Resume(t)
Play(t) == Resume(t)

\* a faulty _audition_stop_all, which clears the map and releases no voice
StopAllForgets(h) ==
    /\ ctl' = CtlIdle
    /\ hist' = [h EXCEPT !.recon = NoRecon]

\* _audition_stop_all (main_window.py 1015-1028): note_off for every tracked
\* voice, and the tracking map is cleared
StopAllStart(h) ==
    /\ ctl' = CtlAfter("stop_all",
                       VoicesOf(sched.active, sched.keys), <<>>)
    /\ hist' = [h EXCEPT !.recon = NoRecon]

\* pause and stop of the playback (main_window.py 784-798)
Pause ==
    /\ ctl.pc = "idle"
    /\ StopAllStart(hist)
    /\ sched' = [sched EXCEPT !.active = <<>>, !.keys = <<>>]
    /\ UNCHANGED <<engineVars, render, outdata>>

\* pause and stop of the playback, with the record that the playback is quiet
PauseRecorded ==
    /\ ctl.pc = "idle"
    /\ StopAllStart([hist EXCEPT !.quiet = TRUE])
    /\ sched' = [sched EXCEPT !.active = <<>>, !.keys = <<>>]
    /\ UNCHANGED <<engineVars, render, outdata>>

\* _on_audition_toggled (main_window.py 1006-1013); t is the player's position
AuditionToggled(enabled, t) ==
    /\ ctl.pc = "idle"
    /\ sched.audition_enabled # enabled
    /\ IF enabled
       THEN Reconcile(t, [sched EXCEPT !.audition_enabled = TRUE],
                      [hist EXCEPT !.quiet = FALSE])
       ELSE /\ StopAllStart(hist)
            /\ sched' = [sched EXCEPT !.audition_enabled = FALSE,
                                       !.active = <<>>, !.keys = <<>>]
    /\ UNCHANGED <<engineVars, render, outdata>>

\* the velocity of a preview (main_window.py 865, 976):
\* max(1, min(127, round(preview_volume * 127)))
PreviewVelocity(volume) == Max2(1, Min2(VelMax, (volume * VelMax + 50) \div 100))

\* _on_note_created (main_window.py 855-871): a short preview of a drawn
\* note, released by a one-shot timer
NoteCreated(pitch) ==
    /\ ctl.pc = "idle"
    /\ sched.preview_volume > 0
    /\ IdAvailable
    /\ DoNoteOn(MidiToHz(pitch), PreviewVelocity(sched.preview_volume))
    /\ sched' = IF NoteOnRet # 0
                THEN [sched EXCEPT !.timers = @ \cup {NoteOnRet}]
                ELSE sched
    /\ ctl' = CtlIdle
    /\ hist' = [hist EXCEPT !.recon = NoRecon, !.ids = Returned(@)]
    /\ UNCHANGED <<master_gain, stream, render, outdata>>

\* the timer of a preview fires (main_window.py 869)
PreviewTimeout(vid) ==
    /\ ctl.pc = "idle"
    /\ vid \in sched.timers
    /\ DoNoteOff(vid)
    /\ sched' = [sched EXCEPT !.timers = @ \ {vid}]
    /\ ctl' = CtlIdle
    /\ hist' = [hist EXCEPT !.released = @ \cup Releases(vid), !.recon = NoRecon]
    /\ UNCHANGED <<master_gain, stream, render, outdata>>

\* a faulty _on_pitch_preview_started, which forgets the preview voice it
\* holds without releasing it
PitchPreviewStartedKeeps(pitch) ==
    /\ ctl.pc = "idle"
    /\ sched' = [sched EXCEPT !.drag_preview_voice_id = 0]
    /\ ctl' = IF sched.preview_volume <= 0 THEN CtlIdle
              ELSE [CtlIdle EXCEPT !.pc = "preview_on", !.onQ = <<pitch>>]
    /\ hist' = [hist EXCEPT !.calls = <<>>]
    /\ UNCHANGED <<engineVars, render, outdata>>

\* _on_pitch_preview_started up to its note_on (main_window.py 962-976): the
\* preview voice held, if any, is issued note_off and forgotten; with the
\* preview volume at zero the handler returns, otherwise its note_on follows
\* as a step of its own (PitchPreviewOn)
PitchPreviewStarted(pitch) ==
    /\ ctl.pc = "idle"
    /\ LET old == sched.drag_preview_voice_id
       IN /\ IF old # 0 THEN DoNoteOff(old)
             ELSE UNCHANGED <<voices, order, next_voice_id>>
          /\ hist' = [hist EXCEPT
                        !.released = IF old # 0 THEN @ \cup Releases(old) ELSE @,
                        !.drag = @ \ {old},
                        !.calls = IF old # 0 THEN << <<"note_off", old>> >>
                                  ELSE <<>>]
    /\ sched' = [sched EXCEPT !.drag_preview_voice_id = 0]
    /\ ctl' = IF sched.preview_volume <= 0 THEN CtlIdle
              ELSE [CtlIdle EXCEPT !.pc = "preview_on", !.onQ = <<pitch>>]
    /\ UNCHANGED <<master_gain, stream, render, outdata>>

\* the note_on of _on_pitch_preview_started and the record of the voice it
\* returned (main_window.py 974-979)
PitchPreviewOn ==
    /\ ctl.pc = "preview_on"
    /\ IdAvailable
    /\ DoNoteOn(MidiToHz(Head(ctl.onQ)), PreviewVelocity(sched.preview_volume))
    /\ sched' = IF NoteOnRet # 0
                THEN [sched EXCEPT !.drag_preview_voice_id = NoteOnRet]
                ELSE sched
    /\ ctl' = [CtlIdle EXCEPT !.ret = NoteOnRet]
    /\ hist' = [hist EXCEPT
                  !.ids = Returned(@),
                  !.drag = IF NoteOnRet # 0 THEN @ \cup {NoteOnRet} ELSE @,
                  !.calls = Append(@, <<"note_on", NoteOnRet>>)]
    /\ UNCHANGED <<master_gain, stream, render, outdata>>

\* a faulty _on_pitch_preview_updated, which restarts the preview voice
PitchPreviewUpdatedRestarts(pitch) == PitchPreviewStarted(pitch)

\* _on_pitch_preview_updated (main_window.py 983-992): without a preview
\* voice it is _on_pitch_preview_started; with one, the voice is retuned
PitchPreviewUpdated(pitch) ==
    IF sched.drag_preview_voice_id = 0
    THEN PitchPreviewStarted(pitch)
    ELSE /\ ctl.pc = "idle"
         /\ DoSetVoiceFreq(sched.drag_preview_voice_id, MidiToHz(pitch))
         /\ ctl' = CtlIdle
         /\ hist' = [hist EXCEPT !.calls =
                       << <<"set_voice_freq", sched.drag_preview_voice_id>> >>]
         /\ UNCHANGED <<master_gain, stream, render, outdata, sched>>

\* _on_pitch_preview_ended (main_window.py 994-1003)
PitchPreviewEnded ==
    /\ ctl.pc = "idle"
    /\ LET old == sched.drag_preview_voice_id
       IN IF old # 0
          THEN /\ DoNoteOff(old)
               /\ sched' = [sched EXCEPT !.drag_preview_voice_id = 0]
               /\ hist' = [hist EXCEPT
                             !.released = @ \cup Releases(old),
                             !.drag = @ \ {old},
                             !.calls = << <<"note_off", old>> >>,
                             !.ended = @ \cup ({old} \cap DOMAIN voices)]
          ELSE /\ hist' = [hist EXCEPT !.calls = <<>>]
               /\ UNCHANGED <<voices, order, next_voice_id, sched>>
    /\ ctl' = CtlIdle
    /\ UNCHANGED <<master_gain, stream, render, outdata>>

\* _on_preview_volume_changed (main_window.py 947-959); value in hundredths
PreviewVolumeChanged(value) ==
    /\ ctl.pc = "idle"
    /\ sched' = [sched EXCEPT !.preview_volume = Max2(0, Min2(100, value))]
    /\ ctl' = CtlIdle
    /\ UNCHANGED <<engineVars, render, outdata, hist>>

\* The timeline: the notes a list is made of, and the lists
Pitches == {60}
Times == 0..MaxTime
TimelineNotes == {Note(60, 0, 2, 25), Note(72, 1, 2, 25)}
NoteLists == [1..MaxNotes -> TimelineNotes]

\* The scheduler on any timeline, with note previews and the render callback
SchedInitAny ==
    /\ EngineInit
    /\ sched \in {SchedState(l) : l \in NoteLists}

Scheduler ==
    \/ \E t \in Times : PositionChanged(t)
    \/ ReconOff
    \/ ReconOn
    \/ Pause
    \/ \E enabled \in BOOLEAN, t \in Times : AuditionToggled(enabled, t)
    \/ \E pitch \in Pitches : NoteCreated(pitch)
    \/ \E vid \in VoiceIds : PreviewTimeout(vid)

\* the loop of the callback (synth.py 148-243) over the voices of ord, run
\* without a step of the control thread in between
RECURSIVE RenderLoop(_, _, _, _, _)
RenderLoop(vs, ord, n, out, dead) ==
    IF ord = <<>> THEN [voices |-> vs, out |-> out, dead |-> dead]
    ELSE LET vid == Head(ord)
             loc == vs[vid]
         IN IF loc.state = "done"
            THEN RenderLoop(vs, Tail(ord), n, out, DeadAfter(dead, vid, loc, n))
            ELSE RenderLoop([vs EXCEPT ![vid] = WriteBack(@, loc, n)],
                            Tail(ord), n,
                            [j \in 1..n |->
                                out[j] + Contribution(loc, master_gain, n, j - 1)],
                            DeadAfter(dead, vid, loc, n))

\* a whole callback (synth.py 126-259) that runs between two calls of the
\* control thread: the loop, the cleanup and the mixdown
RenderBlock(frames) ==
    /\ stream = "active"
    /\ render.pc = "idle"
    /\ \E r \in {RenderLoop(voices, order, frames, Zeros(frames), <<>>)} :
       \E pool \in {DOMAIN voices \ Range(r.dead)} :
          /\ voices' = Restrict(r.voices, pool)
          /\ order' = SelectSeq(order, LAMBDA v : v \in pool)
          /\ outdata' = Mixdown(r.out)
          /\ hist' = HistPrune(hist, pool, FALSE)
    /\ UNCHANGED <<next_voice_id, master_gain, stream, render, ctl, sched>>

\* The scheduler's calls are decided by the control thread alone and by what
\* note_on returns, which depends on the engine through the size of the pool
\* only; the callback changes that size by its pops, so here it runs as a
\* whole between any two calls of the engine, also within one handler.
SchedNext == Scheduler \/ RenderBlock(MaxFrames)

SchedSpec == SchedInitAny /\ [][SchedNext]_vars

\* The engine with a client that stops it: the calls of the control
\* interface, with the calls of stop() counted, and whole render callbacks
\* between them (what stop() leaves behind does not depend on where a
\* callback in progress stands)
StopControl ==
    \/ \E f \in Freqs, vel \in Velocities : NoteOn(f, vel)
    \/ \E vid \in VoiceIds : NoteOff(vid)
    \/ \E vid \in VoiceIds, f \in Freqs : SetVoiceFreq(vid, f)
    \/ AllNotesOffStart
    \/ AllNotesOffStep
    \/ \E device_ok \in BOOLEAN : StopCounted(device_ok)

StopNext == StopControl \/ \E frames \in Frames : RenderBlock(frames)

StopSpec == Init /\ [][StopNext]_vars

\* The engine with a client that retunes its voices: note_on at one
\* frequency, set_voice_freq of any voice to any of two, note_off of the
\* first voice, and the render callback, on full blocks, interleaved with
\* them step by step
RetuneFreqs == {1, 2}
RetuneOffIds == {1}

RetuneControl ==
    \/ \E f \in Freqs, vel \in Velocities : NoteOn(f, vel)
    \/ \E vid \in RetuneOffIds : NoteOff(vid)
    \/ \E vid \in VoiceIds, f \in RetuneFreqs : SetVoiceFreqRecorded(vid, f)

RetuneNext ==
    \/ RetuneControl
    \/ RenderStart(MaxFrames)
    \/ RenderNext
    \/ RenderVoice
    \/ RenderCleanup

RetuneSpec == Init /\ [][RetuneNext]_vars

\* The drag preview: the three handlers of a pitch drag in any order, at two
\* pitches an octave apart, with the preview volume set to zero or back.
\* What the handlers call and record depends on the engine only through what
\* note_on returns, so PreviewSpec runs the render callback as a whole
\* between any two calls of the engine; PreviewRaceSpec interleaves it, on
\* full blocks, step by step with them.
DragPitches == {60, 72}
PreviewVolumes == {0, 20}

PreviewControl ==
    \/ \E pitch \in DragPitches : PitchPreviewStarted(pitch)
    \/ PitchPreviewOn
    \/ \E pitch \in DragPitches : PitchPreviewUpdated(pitch)
    \/ PitchPreviewEnded
    \/ \E value \in PreviewVolumes : PreviewVolumeChanged(value)

PreviewNext == PreviewControl \/ \E frames \in Frames : RenderBlock(frames)

PreviewSpec == Init /\ [][PreviewNext]_vars

PreviewRaceNext ==
    \/ PreviewControl
    \/ RenderStart(MaxFrames)
    \/ RenderNext
    \/ RenderVoice
    \/ RenderCleanup

PreviewRaceSpec == Init /\ [][PreviewRaceNext]_vars

\* The engine with a client that plays loud: note_on at velocities below,
\* within and above the MIDI range, the other calls of the control
\* interface, the master gain set to 0.2 or 1.0, and whole render callbacks,
\* on full blocks, between the calls
MixVelocities == {-1, 64, 200}
AuditionVolumes == {20, 100}

MixControl ==
    \/ \E f \in Freqs, vel \in MixVelocities : NoteOn(f, vel)
    \/ \E vid \in VoiceIds : NoteOff(vid)
    \/ \E vid \in VoiceIds, f \in Freqs : SetVoiceFreq(vid, f)
    \/ AllNotesOffStart
    \/ AllNotesOffStep
    \/ \E value \in AuditionVolumes : AuditionVolumeChanged(value)

MixNext == MixControl \/ RenderBlock(MaxFrames)

MixSpec == Init /\ [][MixNext]_vars

\* The playback: the scheduler on a timeline of two notes that follow each
\* other, with play, pause and stop, marker moves, position updates delivered
\* at any time, the audition switch, note previews, and whole render
\* callbacks between the calls of the engine
PlaybackLists ==
    {<<Note(60, 0, 1, 25), Note(72, 1, 2, 25)>>,
     <<Note(72, 1, 2, 25), Note(60, 0, 1, 25)>>}

PlaybackInit ==
    /\ EngineInit
    /\ sched \in {SchedState(l) : l \in PlaybackLists}

Playback ==
    \/ \E t \in Times : PositionChanged(t)
    \/ \E t \in Times : Play(t)
    \/ \E t \in Times : MarkerMoved(t)
    \/ ReconOff
    \/ ReconOn
    \/ PauseRecorded
    \/ \E enabled \in BOOLEAN, t \in Times : AuditionToggled(enabled, t)
    \/ \E pitch \in Pitches : NoteCreated(pitch)
    \/ \E vid \in VoiceIds : PreviewTimeout(vid)

PlaybackNext == Playback \/ RenderBlock(MaxFrames)

PlaybackSpec == PlaybackInit /\ [][PlaybackNext]_vars

----------------------------------------------------------------------------
\* Edits of the note list during audition.  The widget changes its list of
\* notes on its own (spectrogram_widget.py 107-111, 423-435, 500-524,
\* 531-539); the actions of the toolbar are connected to the widget directly
\* (main_window.py 206, 267), and no signal tells MainWindow of an edit.  The
\* edits and the handlers of MainWindow run on the GUI thread, one at a time.

\* a sequence without its idx-th element (list.pop(idx))
SeqPop(s, idx) == [k \in 1..(Len(s) - 1) |-> IF k < idx THEN s[k] ELSE s[k + 1]]

\* an edit of the widget leaves the note list as new_notes
EditNotes(new_notes) ==
    /\ ctl.pc = "idle"
    /\ sched' = [sched EXCEPT !.notes = new_notes]
    /\ hist' = [hist EXCEPT !.recon = NoRecon]
    /\ UNCHANGED <<engineVars, render, outdata, ctl>>

\* a right click on a note (spectrogram_widget.py 423-435)
NoteDeleted(idx) ==
    /\ idx \in DOMAIN sched.notes
    /\ EditNotes(SeqPop(sched.notes, idx))

\* undo_last_note (spectrogram_widget.py 531-539)
UndoLastNote ==
    /\ sched.notes # <<>>
    /\ EditNotes(SeqPop(sched.notes, Len(sched.notes)))

\* clear_notes (spectrogram_widget.py 107-111)
ClearNotes == EditNotes(<<>>)

\* the release of the mouse after a note was dragged (spectrogram_widget.py
\* 500-524): the note takes the pitch and the start it was dropped at and
\* keeps its length and its velocity
NoteDragged(idx, pitch, start) ==
    /\ idx \in DOMAIN sched.notes
    /\ LET old == sched.notes[idx]
       IN EditNotes([sched.notes EXCEPT ![idx] =
                        Note(pitch, start, start + Max2(1, old.end - old.start),
                             old.vel)])

\* the timeline the edits start from, and the places a note is dropped at
EditList == <<Note(60, 0, 1, 25), Note(72, 1, 2, 25)>>
DropTargets == {<<72, 0>>}

EditInit ==
    /\ EngineInit
    /\ sched = SchedState(EditList)

Edit ==
    \/ \E t \in Times : PositionChanged(t)
    \/ ReconOff
    \/ ReconOn
    \/ Pause
    \/ \E idx \in DOMAIN EditList : NoteDeleted(idx)
    \/ UndoLastNote
    \/ ClearNotes
    \/ \E idx \in DOMAIN EditList, drop \in DropTargets :
          NoteDragged(idx, drop[1], drop[2])

EditNext == Edit \/ RenderBlock(MaxFrames)

EditSpec == EditInit /\ [][EditNext]_vars

----------------------------------------------------------------------------
\* MIDI import (utils/midi.py 88-148).  ctl holds the call and its locals:
\* abs_time, the dict active with its keys in their order of insertion, out,
\* the argument target_duration_sec (NoTarget when it is None), and, for
\* the properties, the number of messages read and of presses among them.
\* mid.play() belongs to mido: what it yields is any sequence of messages
\* with times that are not negative.

MaxMessages == 4

\* the (channel, note) pairs, velocities and time steps of the messages
ImportKeys == {<<0, 60>>, <<1, 60>>, <<0, 72>>}
ImportVelocities == {0, 64}
ImportDeltas == {0, 1}
\* target_duration_sec = None, as a number that is no duration
NoTarget == -1
ImportTargets == {NoTarget, 0, 3}

ImportCall(target) ==
    [pc |-> "import", abs_time |-> 0, active |-> <<>>, keys |-> <<>>,
     out |-> <<>>, target |-> target, read |-> 0, presses |-> 0,
     scale |-> <<1, 1>>, ret |-> <<>>]

\* a faulty pop, which takes the oldest press of the stack
StackPopFirst(stack) == [top |-> Head(stack), rest |-> Tail(stack)]

\* stack.pop() (utils/midi.py 116)
StackPop(stack) ==
    [top |-> stack[Len(stack)], rest |-> SubSeq(stack, 1, Len(stack) - 1)]

\* the loop body for a note_on with velocity > 0 (utils/midi.py 110-112)
ImportPress(key, velocity, dt) ==
    /\ ctl.pc = "import"
    /\ ctl.read < MaxMessages
    /\ velocity > 0
    /\ LET t == ctl.abs_time + dt
           stack == IF key \in DOMAIN ctl.active THEN ctl.active[key] ELSE <<>>
       IN ctl' = [ctl EXCEPT
                    !.abs_time = t,
                    !.active = [k \in DOMAIN @ \cup {key} |->
                                   IF k = key THEN Append(stack, <<t, velocity>>)
                                   ELSE @[k]],
                    !.keys = IF key \in DOMAIN ctl.active THEN @
                             ELSE Append(@, key),
                    !.read = @ + 1,
                    !.presses = @ + 1]
    /\ UNCHANGED <<engineVars, render, outdata, sched, hist>>

\* the loop body for a note_off, or a note_on with velocity 0
\* (utils/midi.py 113-122)
ImportRelease(type, key, dt) ==
    /\ ctl.pc = "import"
    /\ ctl.read < MaxMessages
    /\ LET t == ctl.abs_time + dt
           stack == IF key \in DOMAIN ctl.active THEN ctl.active[key] ELSE <<>>
       IN IF stack # <<>>
          THEN LET p == StackPop(stack)
               IN ctl' = [ctl EXCEPT
                            !.abs_time = t,
                            !.active[key] = p.rest,
                            !.out = Append(@, Note(key[2], p.top[1],
                                                   Max2(t, p.top[1]), p.top[2])),
                            !.read = @ + 1]
          ELSE ctl' = [ctl EXCEPT !.abs_time = t, !.read = @ + 1]
    /\ UNCHANGED <<engineVars, render, outdata, sched, hist>>

\* the loop body for any other message (utils/midi.py 108-109)
ImportOther(dt) ==
    /\ ctl.pc = "import"
    /\ ctl.read < MaxMessages
    /\ ctl' = [ctl EXCEPT !.abs_time = @ + dt, !.read = @ + 1]
    /\ UNCHANGED <<engineVars, render, outdata, sched, hist>>

\* the notes that close the presses of a stack at final_time
\* (utils/midi.py 128-131)
RECURSIVE CloseStack(_, _, _)
CloseStack(pitch, stack, final_time) ==
    IF stack = <<>> THEN <<>>
    ELSE <<Note(pitch, Head(stack)[1], Max2(final_time, Head(stack)[1]),
                Head(stack)[2])>>
         \o CloseStack(pitch, Tail(stack), final_time)

\* the notes that close what is left in active, key by key in the order of
\* the dict (utils/midi.py 125-131)
RECURSIVE CloseHanging(_, _, _)
CloseHanging(active, keys, final_time) ==
    IF keys = <<>> THEN <<>>
    ELSE CloseStack(Head(keys)[2], active[Head(keys)], final_time)
         \o CloseHanging(active, Tail(keys), final_time)

\* the factor of the scaling as a fraction (utils/midi.py 134-137); <<1, 1>>
\* when the notes are not scaled
ScaleOf(target, abs_time) ==
    IF target # NoTarget /\ abs_time > 0 /\ target > 0
    THEN <<target, abs_time>> ELSE <<1, 1>>

\* the notes with their times multiplied by num (utils/midi.py 138-144); the
\* times of the result count in 1/den seconds
ScaleNotes(notes, num) ==
    [i \in DOMAIN notes |->
        Note(notes[i].pitch, notes[i].start * num, notes[i].end * num,
             notes[i].vel)]

\* the sort key (start, end, pitch) of utils/midi.py 147, compared as tuples
KeyLess(a, b) ==
    \/ a.start < b.start
    \/ a.start = b.start /\ a.end < b.end
    \/ a.start = b.start /\ a.end = b.end /\ a.pitch < b.pitch

\* the sort key (start, end) of the notes of an export (utils/midi.py 46)
StartEndLess(a, b) ==
    a.start < b.start \/ (a.start = b.start /\ a.end < b.end)

\* the sort key of the events of an export (utils/midi.py 64): the time,
\* note_off first
EventLess(a, b) ==
    \/ a.sec < b.sec
    \/ a.sec = b.sec /\ a.type = "note_off" /\ b.type = "note_on"

\* the order of a sort key
OrderLess(key, a, b) ==
    CASE key = "start_end_pitch" -> KeyLess(a, b)
      [] key = "start_end" -> StartEndLess(a, b)
      [] key = "event" -> EventLess(a, b)

\* list.sort (utils/midi.py 46, 64, 147): a stable sort, here by insertion
\* of x behind the elements that are not greater
RECURSIVE InsertBy(_, _, _)
InsertBy(key, sorted, x) ==
    IF sorted = <<>> THEN <<x>>
    ELSE IF OrderLess(key, x, Head(sorted)) THEN <<x>> \o sorted
    ELSE <<Head(sorted)>> \o InsertBy(key, Tail(sorted), x)

RECURSIVE SortBy(_, _)
SortBy(key, seq) ==
    IF seq = <<>> THEN <<>>
    ELSE InsertBy(key, SortBy(key, SubSeq(seq, 1, Len(seq) - 1)),
                  seq[Len(seq)])

\* mid.play() is exhausted: the presses left open are closed, the notes are
\* scaled and sorted, and the call returns (utils/midi.py 124-148)
ImportReturn ==
    /\ ctl.pc = "import"
    /\ LET closed == ctl.out \o CloseHanging(ctl.active, ctl.keys, ctl.abs_time)
           scale == ScaleOf(ctl.target, ctl.abs_time)
       IN ctl' = [ctl EXCEPT !.pc = "imported",
                             !.out = closed,
                             !.scale = scale,
                             !.ret = SortBy("start_end_pitch",
                                            ScaleNotes(closed, scale[1]))]
    /\ UNCHANGED <<engineVars, render, outdata, sched, hist>>

ImportInit ==
    /\ voices = <<>>
    /\ order = <<>>
    /\ next_voice_id = 1
    /\ master_gain = MasterGainInit
    /\ stream = "active"
    /\ render = RenderIdle
    /\ outdata = NoBlock
    /\ sched = SchedInit
    /\ hist = HistInit
    /\ ctl \in {ImportCall(target) : target \in ImportTargets}

ImportNext ==
    \/ \E key \in ImportKeys, velocity \in ImportVelocities, dt \in ImportDeltas :
          ImportPress(key, velocity, dt)
    \/ \E key \in ImportKeys, dt \in ImportDeltas :
          ImportRelease("note_off", key, dt) \/ ImportRelease("note_on", key, dt)
    \/ \E dt \in ImportDeltas : ImportOther(dt)
    \/ ImportReturn

ImportSpec == ImportInit /\ [][ImportNext]_vars

----------------------------------------------------------------------------
\* MIDI export (utils/midi.py 16-85).  ctl holds the call: its arguments
\* notes and duration_sec (NoDuration when it is None) and, when the call
\* has ended, whether it raised, the messages of the track after set_tempo
\* with their times in ticks, and last_time_sec.  Times count in seconds.

\* duration_sec = None, as a number that is no duration
NoDuration == -1

\* mido.second2tick at tempo_bpm = 120 and ppq = 480 (utils/midi.py 52,
\* 70, 83): 960 ticks to the second
TicksPerSecond == 960
SecondToTick(sec) == sec * TicksPerSecond

\* the two events of each note, at absolute times (utils/midi.py 56-61)
RECURSIVE EventsOf(_)
EventsOf(norm) ==
    IF norm = <<>> THEN <<>>
    ELSE LET n == Head(norm)
             start == Max2(0, n.start)
             end == Max2(start, n.end)
         IN <<[sec |-> start, type |-> "note_on", note |-> n.pitch,
               velocity |-> n.vel],
              [sec |-> end, type |-> "note_off", note |-> n.pitch,
               velocity |-> 0]>> \o EventsOf(Tail(norm))

\* the messages of the events with their delta times in ticks
\* (utils/midi.py 67-73)
RECURSIVE DeltaEncode(_, _)
DeltaEncode(events, last_time_sec) ==
    IF events = <<>> THEN <<>>
    ELSE <<[type |-> Head(events).type, note |-> Head(events).note,
            velocity |-> Head(events).velocity,
            time |-> Max2(0, SecondToTick(Head(events).sec - last_time_sec))]>>
         \o DeltaEncode(Tail(events), Head(events).sec)

\* last_time_sec after the loop (utils/midi.py 67, 73)
LastTimeSec(events) ==
    IF events = <<>> THEN 0 ELSE events[Len(events)].sec

\* the end_of_track message (utils/midi.py 76-84) for a duration that is a
\* number
EndOfTrack(duration_sec, last_time_sec) ==
    LET track_length_sec == IF duration_sec < last_time_sec
                            THEN last_time_sec ELSE duration_sec
    IN [type |-> "end_of_track", note |-> 0, velocity |-> 0,
        time |-> Max2(0, SecondToTick(track_length_sec - last_time_sec))]

ExportCall(notes, duration_sec) ==
    [pc |-> "export", notes |-> notes, duration_sec |-> duration_sec,
     raised |-> FALSE, saved |-> FALSE, track |-> <<>>, last_time_sec |-> 0]

\* export_notes_to_midi.  The comparison of utils/midi.py 78 raises
\* TypeError when duration_sec is None: the call ends there, before
\* end_of_track is appended and before the file is saved.
ExportNotesToMidi ==
    /\ ctl.pc = "export"
    /\ LET events == SortBy("event", EventsOf(SortBy("start_end", ctl.notes)))
           last == LastTimeSec(events)
           msgs == DeltaEncode(events, 0)
       IN IF ctl.duration_sec = NoDuration
          THEN ctl' = [ctl EXCEPT !.pc = "exported", !.raised = TRUE,
                                  !.track = msgs, !.last_time_sec = last]
          ELSE ctl' = [ctl EXCEPT !.pc = "exported", !.saved = TRUE,
                                  !.track = Append(msgs, EndOfTrack(ctl.duration_sec, last)),
                                  !.last_time_sec = last]
    /\ UNCHANGED <<engineVars, render, outdata, sched, hist>>

\* the notes and durations of the calls
ExportNotes ==
    {Note(pitch, start, end, 80) : pitch \in {60, 72}, start \in {0, 1},
                                   end \in {0, 1, 2}}
ExportLists == UNION {[1..n -> ExportNotes] : n \in 0..MaxNotes}
ExportDurations == {NoDuration, 0, 1, 3}

ExportInit ==
    /\ voices = <<>>
    /\ order = <<>>
    /\ next_voice_id = 1
    /\ master_gain = MasterGainInit
    /\ stream = "active"
    /\ render = RenderIdle
    /\ outdata = NoBlock
    /\ sched = SchedInit
    /\ hist = HistInit
    /\ ctl \in {ExportCall(notes, duration_sec) :
                   notes \in ExportLists, duration_sec \in ExportDurations}

ExportNext == ExportNotesToMidi

ExportSpec == ExportInit /\ [][ExportNext]_vars

----------------------------------------------------------------------------
\* Properties of the engine

\* C1: the pool never holds more than MaxVoices voices, and a note_on issued
\* while the pool holds MaxVoices voices returns None, adds no voice and
\* leaves every voice of the pool as it was.
C1_PoolBounded ==
    /\ [](PoolSize <= MaxVoices /\ Cardinality(DOMAIN voices) <= MaxVoices)
    /\ [][\A f \in Freqs, vel \in Velocities :
            (NoteOn(f, vel) /\ PoolSize >= MaxVoices)
                => (ctl'.ret = 0 /\ voices' = voices /\ order' = order)]_vars

\* a note_on was refused on a full pool whose voices have been rendered
C1_Witness ==
    /\ ctl.ret = 0
    /\ PoolSize = MaxVoices
    /\ \E v \in DOMAIN voices : voices[v].state = "sustain"

\* C2: every voice of the pool has its envelope level within [0, 1].
C2_EnvelopeInRange ==
    \A v \in DOMAIN voices : voices[v].env >= 0 /\ voices[v].env <= EnvScale

\* note_off reached a voice in mid-attack while the render call was between
\* its read of the voice and its write-back
C2_Witness ==
    /\ render.pc = "voice"
    /\ render.loc.state = "attack"
    /\ render.loc.env > 0
    /\ render.vid \in DOMAIN voices
    /\ voices[render.vid].state = "release"

\* the envelope state machine: Attack -> Sustain -> Release -> Done
AllowedTransition(a, b) ==
    \/ a = b
    \/ <<a, b>> \in {<<"attack", "sustain">>, <<"attack", "release">>,
                     <<"sustain", "release">>, <<"release", "done">>}

\* C3: a voice is created in Attack and its state only changes along
\* Attack->Sustain, Attack->Release, Sustain->Release and Release->Done.
C3_Transitions ==
    [][/\ \A v \in DOMAIN voices' \ DOMAIN voices : voices'[v].state = "attack"
       /\ \A v \in DOMAIN voices \cap DOMAIN voices' :
            AllowedTransition(voices[v].state, voices'[v].state)]_vars

\* C4: a render call that returns normally leaves no Done voice in the pool;
\* a Release voice whose level reaches 0 within the block adds nothing to the
\* mix from the crossing sample on, is marked Done with level 0 and is listed
\* for the removal that the same call performs before it returns.
C4_DoneEvicted ==
    [][/\ (render.pc = "cleanup" /\ render'.pc = "idle")
            => /\ ~outdata'.fault
               /\ \A v \in DOMAIN voices' : voices'[v].state # "done"
       /\ (/\ render.pc = "voice" /\ render'.pc = "loop"
           /\ render.loc.state = "release"
           /\ Crosses("release", render.loc.env, render.n))
            => /\ \A j \in 1..render.n :
                    j - 1 >= TransitionIdx("release", render.loc.env)
                        => render'.out[j] = render.out[j]
               /\ render.vid \in DOMAIN voices
                    => /\ voices'[render.vid].state = "done"
                       /\ voices'[render.vid].env = 0
               /\ render.vid \in Range(render'.dead)
       /\ (render.pc = "cleanup" /\ render.dead # <<>> /\ render' # render)
            => Head(render.dead) \notin DOMAIN voices'
      ]_vars

\* a render call whose release voice died before the end of the block, after
\* it added to the mix, is about to evict it
C4_Witness ==
    /\ render.pc = "cleanup"
    /\ render.dead # <<>>
    /\ Head(render.dead) \in DOMAIN voices
    /\ voices[Head(render.dead)].state = "done"
    /\ \E j \in DOMAIN render.out : render.out[j] # 0

\* C5: once note_off has returned for a voice in Attack or Sustain, the voice
\* is in Release and is never again in Attack or Sustain.
C5_NoteOffSticks ==
    \A v \in hist.released \cap DOMAIN voices :
        voices[v].state \notin {"attack", "sustain"}

\* C6: a render call that starts after note_off(v) returned and that sees v
\* sees it in Release, never in Attack or Sustain.
C6_RenderSeesRelease ==
    (render.pc = "voice" /\ render.vid \in hist.offAtStart)
        => render.loc.state \in {"release", "done"}

\* C7: no step of the control thread changes the pool's membership or a voice
\* while a render call is in progress.
C7_RenderOwnsPool ==
    [][(render.pc # "idle" /\ render'.pc = render.pc /\ ctl' # ctl)
            => (voices' = voices /\ order' = order)]_vars

\* C8: a fault inside the render callback ends the callback with a block of
\* silence of the requested length, in every interleaving.
C8_FaultIsSilence ==
    /\ [](outdata.fault =>
            /\ render.pc = "idle"
            /\ \A j \in DOMAIN outdata.pcm : outdata.pcm[j] = 0)
    /\ [][(render.pc = "loop" /\ render'.pc # "loop" /\ PoolSize # render.used)
            => /\ render'.pc = "idle"
               /\ outdata'.fault
               /\ Len(outdata'.pcm) = render.n
               /\ \A j \in DOMAIN outdata'.pcm : outdata'.pcm[j] = 0]_vars

\* a callback faulted on a voice inserted during its loop, after it had
\* advanced a voice, and returned silence
C8_Witness ==
    /\ outdata.fault
    /\ Len(outdata.pcm) = MaxFrames
    /\ PoolSize = MaxVoices
    /\ \E v \in DOMAIN voices : voices[v].state = "sustain"

----------------------------------------------------------------------------
\* Properties of the scheduler

\* the desired active set A(t) = { i : start_i <= t < end_i }
DesiredActive(t) ==
    {i \in DOMAIN sched.notes :
        sched.notes[i].start <= t /\ t < sched.notes[i].end}

\* the indices of the tracking map
Tracked == DOMAIN sched.active

\* C9, as claimed: after every reconciliation the tracked index set is A(t),
\* whatever the pool's occupancy.
C9_TrackedEqualsActive ==
    hist.recon.done => Tracked = DesiredActive(hist.recon.t)

\* C9, amended: after every reconciliation the tracked index set is A(t)
\* without the indices whose note_on returned no voice.
C9_TrackedIsActiveButRefused ==
    hist.recon.done =>
        /\ Tracked = DesiredActive(hist.recon.t) \ hist.recon.failed
        /\ hist.recon.failed \subseteq DesiredActive(hist.recon.t)
        /\ \A i \in Tracked : Len(sched.active[i]) = 1

\* a reconciliation ended with one wanted index tracked and another refused
C9_Witness ==
    /\ hist.recon.done
    /\ hist.recon.failed # {}
    /\ Tracked # {}

\* C10, as claimed: the second of two reconciliations in a row at the same t
\* issues no note_on and no note_off, whatever the pool's occupancy.
C10_RepeatIssuesNothing ==
    hist.recon.repeat => (hist.recon.on = 0 /\ hist.recon.off = 0)

\* C10, amended: the second of two reconciliations in a row at the same t
\* issues no note_off, and one note_on for each index whose note_on returned
\* no voice in the first, and no other.
C10_RepeatRetriesRefused ==
    hist.recon.repeat =>
        /\ hist.recon.off = 0
        /\ hist.recon.onSet \subseteq hist.recon.prevFailed
        /\ hist.recon.on = Cardinality(hist.recon.onSet)
        /\ hist.recon.done => hist.recon.onSet = hist.recon.prevFailed

\* a repeated reconciliation ended that left a tracked voice alone and tried
\* again the index refused before
C10_Witness ==
    /\ hist.recon.repeat
    /\ hist.recon.done
    /\ hist.recon.prevFailed # {}
    /\ hist.recon.on > 0
    /\ Tracked # {}

\* C11: the scheduler calls note_on for an index only when the index is
\* absent from the tracking map, and no index ever has two voices that the
\* scheduler started and has not issued note_off for.
C11_NoDoubleNoteOn ==
    /\ [](\A i \in 1..MaxNotes :
            Cardinality({p \in hist.live : p[1] = i}) <= 1)
    /\ [][ReconOn => Head(ctl.onQ) \notin DOMAIN sched.active]_vars

\* a reconciliation entered with an index sounding left it alone and started
\* a voice for a second index
C11_Witness ==
    /\ hist.recon.done
    /\ hist.recon.on > 0
    /\ hist.recon.before # <<>>
    /\ DOMAIN hist.recon.before \subseteq Tracked
    /\ Cardinality(hist.live) = 2

\* C12: a reconciliation at time t issues note_off for every voice id that
\* was tracked under an index outside A(t) when it was entered, and removes
\* the index from the tracking map.
C12_StaleReleased ==
    hist.recon.done =>
        \A i \in DOMAIN hist.recon.before \ DesiredActive(hist.recon.t) :
            /\ Range(hist.recon.before[i]) \subseteq hist.recon.offSet
            /\ i \notin Tracked

\* a note tracked at a time inside its span was released by the
\* reconciliation at its end time
C12_Witness ==
    /\ hist.recon.done
    /\ hist.recon.t = 2
    /\ hist.recon.before # <<>>
    /\ hist.recon.offSet # {}
    /\ Tracked = {}

----------------------------------------------------------------------------
\* Properties of the rendering

\* C13: the phase stored for a Sustain voice after a block of N frames is
\* (phase_before + N * w) mod 2 pi, so that the first sample of the next
\* block continues the sinusoid one step after the last sample of this one.
C13_PhaseContinuous ==
    [][(/\ render.pc = "voice" /\ render'.pc = "loop"
        /\ render.loc.state = "sustain"
        /\ render.vid \in DOMAIN voices)
            => voices'[render.vid].phase =
                 (render.loc.phase + render.n * render.loc.freq) % TwoPi]_vars

\* the level the claim C14 gives sample j (0-based) of a block in which an
\* attack from level e completes: the ramp below k = floor((1 - e) / a), 1 from k
AttackLevel(e, j) ==
    IF j < (EnvScale - e) \div attack_inc THEN e + attack_inc * j ELSE EnvScale

\* C14: an Attack voice with level e rendered for N frames with
\* e + a * N >= 1 adds the ramp e + a * j, each below 1, to the samples before
\* k = floor((1 - e) / a), adds level 1 to the samples from k on, and ends the
\* call in Sustain with level exactly 1.
C14_AttackCompletes ==
    [][(/\ render.pc = "voice" /\ render'.pc = "loop"
        /\ render.loc.state = "attack"
        /\ render.loc.env + attack_inc * render.n >= EnvScale)
            => /\ \A j \in 0..(render.n - 1) :
                    /\ render'.out[j + 1] - render.out[j + 1] =
                          Sin(render.loc.phase + render.loc.freq * j)
                              * master_gain * render.loc.gain
                              * AttackLevel(render.loc.env, j)
                    /\ j < (EnvScale - render.loc.env) \div attack_inc
                          => render.loc.env + attack_inc * j < EnvScale
               /\ render.vid \in DOMAIN voices
                    => /\ voices'[render.vid].state = "sustain"
                       /\ voices'[render.vid].env = EnvScale]_vars

\* an attack that had begun in an earlier block completed inside a block of
\* MaxFrames frames, with samples on the ramp and samples at level 1
C14_Witness ==
    /\ render.pc = "loop"
    /\ render.loc.state = "attack"
    /\ render.loc.env > 0
    /\ render.n = MaxFrames
    /\ (EnvScale - render.loc.env) \div attack_inc < MaxFrames
    /\ (EnvScale - render.loc.env) \div attack_inc > 0
    /\ render.vid \in DOMAIN voices
    /\ voices[render.vid].state = "sustain"
    /\ voices[render.vid].env = EnvScale
    /\ \E j \in DOMAIN render.out : render.out[j] # 0

\* C15: a render call of N frames that starts after note_off or all_notes_off
\* returned for a voice and that returns normally removes the voice when its
\* level e at the start was at most r * N, and otherwise lowers its level by
\* r * N: the voice is gone after at most ceil(e / (r * N)) such calls.
C15_ReleaseBounded ==
    (render.pc = "cleanup" /\ render.dead = <<>>)
        => \A v \in hist.offAtStart \cap DOMAIN voices :
              /\ hist.envAtStart[v] > release_inc * render.n
              /\ voices[v].env + release_inc * render.n <= hist.envAtStart[v]

----------------------------------------------------------------------------
\* Properties of the control interface

\* everything of a voice but its envelope state
SameButState(a, b) ==
    /\ a.env = b.env
    /\ a.phase = b.phase
    /\ a.freq = b.freq
    /\ a.gain = b.gain

\* C16: note_off(id) leaves the whole engine as it is when id is unknown or
\* the voice is in Release or Done; otherwise it changes that voice's state to
\* Release and nothing else.
C16_NoteOffFrame ==
    [][\A vid \in VoiceIds :
        NoteOff(vid) =>
            /\ UNCHANGED <<order, next_voice_id, master_gain, stream, render,
                           outdata>>
            /\ IF vid \notin DOMAIN voices
                    \/ voices[vid].state \in {"release", "done"}
               THEN voices' = voices
               ELSE voices' = [voices EXCEPT ![vid].state = "release"]]_vars

\* C17: all_notes_off adds and removes no voice, changes no level, phase,
\* frequency or gain, leaves a Done voice Done and, when it returns, has put
\* every other voice of the pool in Release.
C17_AllNotesOffFrame ==
    [][(ctl.pc = "all_notes_off" /\ ctl' # ctl) =>
          /\ DOMAIN voices' = DOMAIN voices
          /\ order' = order
          /\ \A v \in DOMAIN voices :
                /\ SameButState(voices'[v], voices[v])
                /\ voices'[v].state \in {voices[v].state, "release"}
                /\ voices[v].state = "done" => voices'[v].state = "done"
          /\ (ctl'.pc = "idle" /\ ~ctl'.raised) =>
                \A v \in DOMAIN voices' :
                    voices'[v].state \in {"release", "done"}]_vars

\* C18: after stop() has returned, note_on returns no voice and adds nothing
\* to the pool, and note_off, set_voice_freq and all_notes_off change nothing.
C18_NoOpAfterStop ==
    [][hist.stops > 0 =>
          /\ \A f \in Freqs, vel \in Velocities :
                NoteOn(f, vel) =>
                    /\ ctl'.ret = 0
                    /\ voices' = voices /\ order' = order
                    /\ voices' = <<>>
          /\ \A vid \in VoiceIds : NoteOff(vid) => voices' = voices
          /\ \A vid \in VoiceIds, f \in Freqs :
                SetVoiceFreq(vid, f) => voices' = voices
          /\ AllNotesOffStep => voices' = voices]_vars

\* C19: stop() leaves the pool empty; a further stop() raises nothing, leaves
\* the pool empty and a closed stream closed, and changes nothing of the
\* engine when no call came in between.
C19_StopIdempotent ==
    [][\A device_ok \in BOOLEAN :
        StopCounted(device_ok) =>
            /\ voices' = <<>>
            /\ order' = <<>>
            /\ ~ctl'.raised
            /\ hist.stops > 0 =>
                  /\ next_voice_id' = next_voice_id
                  /\ master_gain' = master_gain
                  /\ stream = "closed" => stream' = "closed"
                  /\ (stream = "closed" /\ order = <<>>)
                        => engineVars' = engineVars]_vars

\* stop() was called again on a stream that the first call had closed
C19_Witness ==
    /\ hist.stops = 2
    /\ stream = "closed"
    /\ order = <<>>
    /\ next_voice_id > 1
    /\ ctl = CtlIdle

\* C20: after stop() has returned no render call begins and no output block
\* is produced, wherever the render thread stood when stop() was called.
C20_NoRenderAfterStop ==
    [][hist.stops > 0 =>
          /\ ~(render.pc = "idle" /\ render'.pc # "idle")
          /\ render.pc = "idle" => outdata' = outdata]_vars


\* C21: a call of stop() in which stopping or closing the device fails
\* returns normally (the failure does not reach the caller), and the pool is
\* empty when it returns, as after a call in which the device stopped.
C21_StopFailureCaught ==
    [][StopCounted(FALSE) =>
          /\ ~ctl'.raised
          /\ ctl'.pc = "idle"
          /\ voices' = <<>>
          /\ order' = <<>>
          /\ stream' = stream]_vars

\* the first stop() has returned on a pool that held the voices created so
\* far (no block was rendered), the device still running: its call failed
C21_Witness ==
    /\ hist.stops = 1
    /\ stream = "active"
    /\ hist.ids # {}
    /\ outdata = NoBlock
    /\ voices = <<>>
    /\ ~ctl.raised

\* C22: every id note_on returns is greater than every id it returned
\* before, whether or not those voices are still in the pool, and so is
\* returned once; the ids of the pool are ids that were returned.
C22_IdsIncrease ==
    [][/\ \A f \in Freqs, vel \in Velocities :
            NoteOn(f, vel) /\ ctl'.ret # 0 =>
               /\ \A i \in hist.ids : ctl'.ret > i
               /\ ctl'.ret \notin DOMAIN voices
               /\ ctl'.ret \in DOMAIN voices'
               /\ hist'.ids = hist.ids \cup {ctl'.ret}
       /\ DOMAIN voices' \subseteq hist'.ids
       /\ \A i \in hist'.ids : i < next_voice_id']_vars

\* three ids were returned and the voices of the first two have left the pool
C22_Witness ==
    /\ hist.ids = {1, 2, 3}
    /\ DOMAIN voices = {3}
    /\ ctl.ret = 3

\* C23: set_voice_freq(id, f) on a pooled voice sets that voice's frequency
\* to f and changes nothing else: its state, level, phase and gain, every
\* other voice, the pool's membership and order, the id counter, the master
\* gain and the stream stay as they were.  On an id that is not in the pool
\* it changes nothing and creates no voice.
C23_SetVoiceFreqFrame ==
    [][\A vid \in VoiceIds, f \in RetuneFreqs :
          SetVoiceFreqRecorded(vid, f) =>
             /\ DOMAIN voices' = DOMAIN voices
             /\ \A v \in DOMAIN voices \ {vid} : voices'[v] = voices[v]
             /\ vid \in DOMAIN voices =>
                   /\ voices'[vid].freq = f
                   /\ voices'[vid].state = voices[vid].state
                   /\ voices'[vid].env = voices[vid].env
                   /\ voices'[vid].phase = voices[vid].phase
                   /\ voices'[vid].gain = voices[vid].gain
             /\ UNCHANGED <<order, next_voice_id, master_gain, stream, render,
                            outdata>>
             /\ ~ctl'.raised]_vars

\* a sounding voice was retuned next to a voice that kept its frequency
C23_Witness ==
    \E v, u \in DOMAIN voices :
       /\ voices[v].freq = 2
       /\ voices[v].env > 0
       /\ voices[v].phase # 0
       /\ voices[u].freq = 1
       /\ ctl = CtlIdle

\* C24: a render call that begins after set_voice_freq(id, f) returned, with
\* no later retune of the voice, computes every sample of the voice at
\* frequency f, starting from the phase stored when the call began and with
\* the level stored then; the retune itself leaves phase and level alone.
C24_RetuneNextBlock ==
    [][/\ \A vid \in VoiceIds, f \in RetuneFreqs :
            SetVoiceFreqRecorded(vid, f) /\ vid \in DOMAIN voices =>
               /\ voices'[vid].phase = voices[vid].phase
               /\ voices'[vid].env = voices[vid].env
       /\ (/\ render.pc = "voice"
           /\ render'.pc = "loop"
           /\ render.vid \in DOMAIN hist.retuneAtStart
           /\ render.loc.state # "done") =>
              LET at == hist.retuneAtStart[render.vid]
              IN /\ render.loc.freq = at.freq
                 /\ \A j \in 1..render.n :
                       render'.out[j] - render.out[j]
                         = Sin(at.phase + at.freq * (j - 1)) * master_gain
                             * render.loc.gain
                             * ChunkEnv(render.loc.state, at.env, render.n, j - 1)
      ]_vars

\* the loop has just rendered a block of several samples of a voice retuned
\* to the other frequency before the block began, from a phase other than 0
C24_Witness ==
    /\ render.pc = "loop"
    /\ render.n > 1
    /\ render.vid \in DOMAIN hist.retuneAtStart
    /\ hist.retuneAtStart[render.vid].freq = 2
    /\ hist.retuneAtStart[render.vid].phase # 0
    /\ render.loc.state \in {"attack", "sustain", "release"}

\* C28: the phase stored for every voice of the pool is in [0, 2 pi) at all
\* times, and so after every render call, whatever the voice's frequency and
\* however many blocks were rendered.
C28_PhaseWrapped ==
    \A v \in DOMAIN voices : voices[v].phase \in 0..(TwoPi - 1)

\* a render call has stored a phase that it had to wrap: the phase advances
\* by 3 or 6 per block here, which reaches 2 only through 6 modulo TwoPi
C28_Witness ==
    /\ render.pc = "idle"
    /\ outdata # NoBlock
    /\ \E v \in DOMAIN voices :
          /\ voices[v].freq = 2
          /\ voices[v].phase = 2
          /\ voices[v].state = "sustain"

\* C25: at all times the voices the drag preview created and has not issued
\* note_off for are at most one, and that one is the voice
\* _drag_preview_voice_id refers to.
C25_OnePreviewVoice ==
    /\ Cardinality(hist.drag) <= 1
    /\ hist.drag \subseteq {sched.drag_preview_voice_id} \ {0}

\* a second start has released the first preview voice, which is still in
\* the pool, and holds the voice it created
C25_Witness ==
    /\ sched.drag_preview_voice_id = 2
    /\ hist.drag = {2}
    /\ 1 \in DOMAIN voices
    /\ 2 \in DOMAIN voices
    /\ hist.calls = << <<"note_off", 1>>, <<"note_on", 2>> >>

\* C26: with a preview voice held, _on_pitch_preview_updated(pitch) issues
\* one set_voice_freq on that voice and no other call: the voice held, the
\* pool's membership and order and the id counter are unchanged and only the
\* frequency of that voice is set.  With none held it is a step of
\* _on_pitch_preview_started(pitch).
C26_UpdateRetunes ==
    [][\A pitch \in DragPitches :
          PitchPreviewUpdated(pitch) =>
             LET id == sched.drag_preview_voice_id
             IN IF id # 0
                THEN /\ hist'.calls = << <<"set_voice_freq", id>> >>
                     /\ sched' = sched
                     /\ order' = order
                     /\ next_voice_id' = next_voice_id
                     /\ ctl'.pc = "idle"
                     /\ hist'.drag = hist.drag
                     /\ voices' = IF id \in DOMAIN voices
                                  THEN [voices EXCEPT ![id].freq = MidiToHz(pitch)]
                                  ELSE voices
                ELSE PitchPreviewStarted(pitch)]_vars

\* the preview voice started at the lower pitch sounds at the upper one
\* after an update, and is still the voice held
C26_Witness ==
    /\ sched.drag_preview_voice_id = 1
    /\ hist.calls = << <<"set_voice_freq", 1>> >>
    /\ 1 \in DOMAIN voices
    /\ voices[1].freq = MidiToHz(72)
    /\ voices[1].env > 0
    /\ hist.drag = {1}

\* C27: a pooled voice that _on_pitch_preview_ended issued note_off for is
\* never in Attack or Sustain.
C27_EndedNotSounding ==
    \A v \in hist.ended \cap DOMAIN voices :
        voices[v].state \notin {"attack", "sustain"}

\* C29: every sample of a block handed to the device is within
\* [-32767, 32767]: it is the float mix limited to [-1, 1] and then scaled
\* by 32767, so a mix beyond full scale comes out at full scale.
C29_ClippedPcm ==
    \A j \in DOMAIN outdata.mix :
       /\ outdata.pcm[j] \in (-PcmMax)..PcmMax
       /\ outdata.mix[j] > OutUnit => outdata.pcm[j] = PcmMax
       /\ outdata.mix[j] < -OutUnit => outdata.pcm[j] = -PcmMax
       /\ outdata.mix[j] \in (-OutUnit)..OutUnit
             => outdata.pcm[j] = TruncDiv(outdata.mix[j] * PcmMax, OutUnit)

\* a block whose mix went beyond full scale on both sides
C29_Witness ==
    /\ \E j \in DOMAIN outdata.mix : outdata.mix[j] > OutUnit
    /\ \E j \in DOMAIN outdata.mix : outdata.mix[j] < -OutUnit

\* C30: the gain of a voice is set by note_on from the velocity limited to
\* 0..127, so it is in [0, 1] and a velocity below 0 or above 127 gives the
\* gain of 0 or of 127; no later step of the engine or of its clients
\* changes the gain of a voice that stays in the pool.
C30_GainFixed ==
    [][/\ \A v \in DOMAIN voices \cap DOMAIN voices' :
            voices'[v].gain = voices[v].gain
       /\ \A v \in DOMAIN voices' : voices'[v].gain \in 0..10
       /\ \A f \in Freqs, vel \in MixVelocities :
            NoteOn(f, vel) /\ ctl'.ret # 0 =>
               voices'[ctl'.ret].gain =
                  IF vel < 0 THEN Pow08(0)
                  ELSE IF vel > VelMax THEN Pow08(VelMax) ELSE Pow08(vel)
      ]_vars

\* a voice created above the MIDI range and one created below it, after
\* renders, a release and a change of the master gain
C30_Witness ==
    \E v, u \in DOMAIN voices :
       /\ voices[v].gain = Pow08(VelMax)
       /\ voices[v].state = "release"
       /\ voices[v].env \in 1..(EnvScale - 1)
       /\ voices[u].gain = Pow08(0)
       /\ voices[u].phase # 0
       /\ master_gain # MasterGainInit

\* C31: once pause() or stop() of the playback has returned, and until play
\* is called, the marker is moved or audition is enabled, the tracking map
\* is empty and no reconciliation starts a voice, whatever position updates
\* are delivered.
C31_PauseStaysQuiet ==
    /\ [](hist.quiet /\ ctl.pc = "idle" => Tracked = {})
    /\ [][(hist.quiet /\ ctl.pc = "recon")
            => next_voice_id' = next_voice_id]_vars

\* C32: while audition is disabled the tracking map is empty, no
\* reconciliation runs and every voice the scheduler started has been issued
\* note_off once the handler that disabled it has returned; disabling
\* audition lists every tracked voice for note_off and clears the map; play
\* and marker moves with audition disabled change neither the engine nor the
\* map.
C32_DisabledIsSilent ==
    /\ [](~sched.audition_enabled =>
            /\ Tracked = {}
            /\ ctl.pc # "recon"
            /\ ctl.pc = "idle" => hist.live = {})
    /\ [][/\ ReconOn => sched.audition_enabled
          /\ (sched.audition_enabled /\ ~sched'.audition_enabled) =>
                /\ Range(ctl'.offQ) = {p[2] : p \in hist.live}
                /\ sched'.active = <<>>
          /\ (~sched.audition_enabled /\ \E t \in Times : Resume(t)) =>
                /\ UNCHANGED <<voices, order, next_voice_id, sched>>
                /\ ctl'.pc = "idle"]_vars

\* audition was disabled with a voice tracked: the voice is in the pool,
\* released, and the map is empty
C32_Witness ==
    /\ ~sched.audition_enabled
    /\ ctl.pc = "idle"
    /\ Tracked = {}
    /\ hist.ids # {}
    /\ \E v \in DOMAIN voices : voices[v].state = "release" /\ v \notin sched.timers
    /\ ~hist.quiet

\* C33: note_off takes no voice out of the pool, and a note_on of the
\* scheduler on a pool of MaxVoices voices returns no voice, whatever their
\* states: the pool and the tracking map stay as they were and the index is
\* refused.
C33_ReleasedHoldSlots ==
    [][/\ ReconOff => (DOMAIN voices' = DOMAIN voices /\ order' = order)
       /\ (ReconOn /\ PoolSize = MaxVoices) =>
             /\ voices' = voices
             /\ order' = order
             /\ next_voice_id' = next_voice_id
             /\ sched'.active = sched.active
             /\ Head(ctl.onQ) \in hist'.recon.failed]_vars

\* before any render call, a reconciliation on a full pool released one voice
\* and was refused the one note it wanted to start, all voices of the pool
\* being in Release
C33_Witness ==
    /\ hist.recon.done
    /\ outdata = NoBlock
    /\ PoolSize = MaxVoices
    /\ Cardinality(hist.recon.offSet) = 1
    /\ Cardinality(hist.recon.onSet) = 1
    /\ hist.recon.failed = hist.recon.onSet
    /\ \A v \in DOMAIN voices : voices[v].state = "release"

----------------------------------------------------------------------------
\* Properties of the engine under concurrent calls

\* C34: a note_on that adds a voice while the render callback is iterating
\* the pool does not disturb the block: the callback does not take its fault
\* path and hands over the mix of the voices, not silence.
C34_NoteOnDuringRender ==
    [][(/\ render.pc = "loop" /\ render.used > 0
        /\ PoolSize > render.used /\ render' # render)
            => (~outdata'.fault /\ render'.pc # "idle")]_vars

\* C35: all_notes_off running while the render callback evicts finished
\* voices returns without raising to its caller.
C35_AllNotesOffNeverRaises ==
    [][(ctl.pc = "all_notes_off" /\ PoolSize < ctl.used) => ~ctl'.raised]_vars

----------------------------------------------------------------------------
\* Properties of the scheduler under edits of the note list

\* C37: when a reconciliation has completed, every pooled voice tracked under
\* an index sounds the pitch of the note the list holds at that index, after
\* any edits of the list between the reconciliations.
C37_TrackedSoundsListed ==
    (ctl.pc = "idle" /\ hist.recon.done) =>
        \A i \in Tracked :
            \A k \in DOMAIN sched.active[i] :
                sched.active[i][k] \in DOMAIN voices =>
                    /\ i \in DOMAIN sched.notes
                    /\ voices[sched.active[i][k]].freq =
                          MidiToHz(sched.notes[i].pitch)

----------------------------------------------------------------------------
\* Properties of the MIDI import

\* the number of places of a sequence that hold x
Occurrences(seq, x) == Cardinality({i \in DOMAIN seq : seq[i] = x})

\* the open presses of the import as pairs <<key, place in the stack>>
OpenPresses(c) ==
    {<<key, k>> : key \in DOMAIN c.active, k \in 1..MaxMessages} \cap
    {p \in (DOMAIN c.active) \X (1..MaxMessages) :
        p[2] \in DOMAIN c.active[p[1]]}

\* the note an open press becomes when it is closed at time t
ClosedAt(c, p, t) ==
    Note(p[1][2], c.active[p[1]][p[2]][1], t, c.active[p[1]][p[2]][2])

\* a sequence of notes in ascending order of (start, end, pitch)
Ascending(notes) ==
    \A i, j \in DOMAIN notes :
        i < j => \/ notes[i].start < notes[j].start
                 \/ /\ notes[i].start = notes[j].start
                    /\ notes[i].end < notes[j].end
                 \/ /\ notes[i].start = notes[j].start
                    /\ notes[i].end = notes[j].end
                    /\ notes[i].pitch <= notes[j].pitch

\* C38: the import pairs presses and releases per (channel, pitch) with a
\* stack.  A release takes the latest open press of its key and yields one
\* note from that press to the time of the release; a release of a key with
\* no open press yields nothing; the presses still open at the end yield one
\* note each, up to the final time; so every press yields exactly one note.
\* Every note ends no earlier than it starts, and the result is sorted by
\* (start, end, pitch).
C38_ImportPairsLifo ==
    /\ [](ctl.pc = "import" =>
            /\ Len(ctl.out) + Cardinality(OpenPresses(ctl)) = ctl.presses
            /\ \A key \in DOMAIN ctl.active :
                  \A i, j \in DOMAIN ctl.active[key] :
                      i < j => ctl.active[key][i][1] <= ctl.active[key][j][1]
            /\ \A p \in OpenPresses(ctl) :
                  ctl.active[p[1]][p[2]][1] <= ctl.abs_time)
    /\ [](ctl.pc = "imported" =>
            /\ Len(ctl.ret) = ctl.presses
            /\ Len(ctl.out) = ctl.presses
            /\ \A i \in DOMAIN ctl.ret : ctl.ret[i].end >= ctl.ret[i].start
            /\ Ascending(ctl.ret)
            /\ \A i \in DOMAIN ctl.out :
                  LET n == Note(ctl.out[i].pitch, ctl.out[i].start * ctl.scale[1],
                                ctl.out[i].end * ctl.scale[1], ctl.out[i].vel)
                  IN Occurrences(ctl.ret, n) =
                       Occurrences(ctl.out, ctl.out[i]))
    /\ [][/\ ctl.pc = "import"
          /\ \A key \in ImportKeys, dt \in ImportDeltas :
                ImportRelease("note_off", key, dt) =>
                  IF key \in DOMAIN ctl.active /\ ctl.active[key] # <<>>
                  THEN LET stack == ctl.active[key]
                           latest == stack[Len(stack)]
                       IN /\ ctl'.out =
                               Append(ctl.out,
                                      Note(key[2], latest[1], ctl'.abs_time,
                                           latest[2]))
                          /\ ctl'.active =
                               [ctl.active EXCEPT ![key] =
                                   SubSeq(stack, 1, Len(stack) - 1)]
                  ELSE ctl'.out = ctl.out /\ ctl'.active = ctl.active
          /\ ctl'.presses > ctl.presses => ctl'.out = ctl.out
          /\ ctl'.pc = "imported" =>
                /\ Len(ctl'.out) = Len(ctl.out) + Cardinality(OpenPresses(ctl))
                /\ SubSeq(ctl'.out, 1, Len(ctl.out)) = ctl.out
                /\ \A p \in OpenPresses(ctl) :
                      LET n == ClosedAt(ctl, p, ctl.abs_time)
                      IN Occurrences(ctl'.out, n) =
                           Occurrences(ctl.out, n) +
                           Cardinality({q \in OpenPresses(ctl) :
                                          ClosedAt(ctl, q, ctl.abs_time) = n})]_vars

\* an import has returned two notes of one pitch, the later press of which
\* was released first, with their times scaled
C38_Witness ==
    /\ ctl.pc = "imported"
    /\ ctl.scale # <<1, 1>>
    /\ \E i, j \in DOMAIN ctl.ret :
          /\ ctl.ret[i].pitch = ctl.ret[j].pitch
          /\ ctl.ret[i].start < ctl.ret[j].start
          /\ ctl.ret[j].end < ctl.ret[i].end

----------------------------------------------------------------------------
\* Properties of the MIDI export

\* the time in ticks of the last message of a track
RECURSIVE TrackTicks(_)
TrackTicks(track) ==
    IF track = <<>> THEN 0 ELSE Head(track).time + TrackTicks(Tail(track))

\* C39: an export ends without error whether duration_sec is given or not,
\* and its track ends with end_of_track: at the last note event when
\* duration_sec is not given or is smaller than the time of that event (at
\* time 0 when there are no notes), and never before the last note event.
C39_ExportOptionalDuration ==
    ctl.pc = "exported" =>
        /\ ~ctl.raised
        /\ ctl.saved
        /\ ctl.track # <<>>
        /\ ctl.track[Len(ctl.track)].type = "end_of_track"
        /\ TrackTicks(ctl.track) >= SecondToTick(ctl.last_time_sec)
        /\ (ctl.duration_sec = NoDuration \/ ctl.duration_sec < ctl.last_time_sec)
              => TrackTicks(ctl.track) = SecondToTick(ctl.last_time_sec)
====
